---- MODULE Spec2Model ----
(***************************************************************************)
(* Cross-table lookups (CTL) of the EVM STARK prover/verifier,             *)
(* evm/src/cross_table_lookup.rs.                                          *)
(*                                                                         *)
(* Indices (rows, columns, tables, lookups, challenges) are 0-based as in  *)
(* the source; TLA+ sequences are 1-based, so element i of a Vec v is      *)
(* v[i + 1].  Option<T> is a sequence of length 0 (None) or 1 (Some).      *)
(***************************************************************************)
EXTENDS Integers, Sequences, FiniteSets, TLC

VARIABLES
    pc,                          \* position of the driver
    debug_assertions,            \* build profile: debug_assert! is compiled in
    trace_poly_values,           \* per table, the column-major trace
    cross_table_lookups,         \* Vec<CrossTableLookup>
    ctl_challenges,              \* GrandProductChallengeSet.challenges
    ctl_data_per_table,          \* result of cross_table_lookup_data
    ctl_zs_first,                \* per table, the first-row Z openings
    ctl_extra_looking_products,  \* per table, one extra product per challenge
    num_challenges,              \* config.num_challenges
    verify_result,               \* result of verify_cross_table_lookups
    frame_row,                   \* row of the evaluation frame
    consumer,                    \* constraints given to ConstraintConsumer
    consumer_circuit,            \* constraints given to RecursiveConstraintConsumer
    extra_memory_looking_values, \* extra looking rows given to check_ctls
    check_result,                \* outcome of testutils::check_ctls
    num_zs,                      \* per table, the result of num_ctl_zs
    column_args,                 \* arguments of a Column constructor
    column_result,               \* what the Column constructor did
    table_values,                \* the column-major table given to eval_table
    eval_table_result,           \* what Column::eval_table returned
    lookup_args,                 \* arguments of CrossTableLookup::new
    lookup_result,               \* what CrossTableLookup::new did
    challenger,                  \* Challenger: the transcript and its position
    challenger_target,           \* RecursiveChallenger: the same for targets
    challenge_set,               \* result of get_grand_product_challenge_set
    challenge_set_target,        \* result of get_grand_product_challenge_set_target
    combine_terms,               \* the terms given to combine
    combine_result,              \* what combine and combine_circuit returned
    buffer,                      \* the bytes written by to_buffer
    from_buffer_result,          \* what from_buffer returned
    proofs,                      \* per table, the openings of its proof
    num_lookup_columns,          \* per table, the auxiliary openings to skip
    ctl_vars_per_table,          \* what CtlCheckVars::from_proofs did
    ctl_vars_target,             \* per table, what CtlCheckVarsTarget::from_proof did
    lv                           \* the CpuColumnsView given to the membus

\* The state of the consistency oracle and of the Z count.
oracle_vars == <<extra_memory_looking_values, check_result, num_zs>>

\* The state of the construction of Columns and lookups.
build_vars == <<column_args, column_result, table_values, eval_table_result,
                lookup_args, lookup_result>>

\* The state of the challenge derivation and of the challenge-set encoding.
challenge_vars == <<challenger, challenger_target, challenge_set,
                    challenge_set_target, combine_terms, combine_result, buffer,
                    from_buffer_result>>

\* The state of the extraction of the CTL openings of a proof.
extract_vars == <<proofs, num_lookup_columns, ctl_vars_per_table, ctl_vars_target>>

\* The state of the CPU row given to the membus constraints.
cpu_vars == <<lv>>

vars == <<pc, debug_assertions, trace_poly_values, cross_table_lookups,
          ctl_challenges, ctl_data_per_table, ctl_zs_first,
          ctl_extra_looking_products, num_challenges, verify_result,
          frame_row, consumer, consumer_circuit, oracle_vars, build_vars,
          challenge_vars, extract_vars, cpu_vars>>

(***************************************************************************)
(* The field F.  The source is generic over a prime field; the model uses  *)
(* a prime small enough for products of two elements to stay in range.     *)
(***************************************************************************)
FieldOrder == 46337

Add(a, b) == (a + b) % FieldOrder

Sub(a, b) == ((a - b) + FieldOrder) % FieldOrder

Mul(a, b) == (a * b) % FieldOrder

Neg(a) == Sub(0, a)

(***************************************************************************)
(* Column: two linear combinations (current row, next row) and a constant. *)
(* A term is <<column index, coefficient>>.                                *)
(***************************************************************************)
Column(lc, next_lc, c) ==
    [linear_combination |-> lc, next_row_linear_combination |-> next_lc, constant |-> c]

single(c) == Column(<< <<c, 1>> >>, << >>, 0)

single_next_row(c) == Column(<< >>, << <<c, 1>> >>, 0)

constant(k) == Column(<< >>, << >>, k)

\* v.iter().map(|(c, _)| c).unique().count() == v.len()
unique_columns(v) == Cardinality({v[k][1] : k \in 1..Len(v)}) = Len(v)

(* The constructors that assert.  A result is [panic, column]; debug tells
   whether debug_assert_eq! is compiled in. *)
Constructed(column) == [panic |-> FALSE, column |-> column]

ConstructionPanic == [panic |-> TRUE, column |-> Column(<< >>, << >>, 0)]

linear_combination_with_constant(v, k, debug) ==
    IF v = << >> THEN ConstructionPanic
    ELSE IF debug /\ ~unique_columns(v) THEN ConstructionPanic
    ELSE Constructed(Column(v, << >>, k))

linear_combination_and_next_row_with_constant(v, next_row_v, k, debug) ==
    IF v = << >> /\ next_row_v = << >> THEN ConstructionPanic
    ELSE IF debug /\ ~unique_columns(v) THEN ConstructionPanic
    ELSE IF debug /\ ~unique_columns(next_row_v) THEN ConstructionPanic
    ELSE Constructed(Column(v, next_row_v, k))

linear_combination(v, debug) == linear_combination_with_constant(v, 0, debug)

\* base.powers(): 1, base, base^2, ...
RECURSIVE powers(_, _)
powers(base, i) == IF i = 0 THEN 1 ELSE Mul(base, powers(base, i - 1))

\* cs.zip(base.powers())
zip_powers(cs, base) == [k \in 1..Len(cs) |-> <<cs[k], powers(base, k - 1)>>]

le_bits(cs, debug) == linear_combination(zip_powers(cs, 2), debug)

le_bytes(cs, debug) == linear_combination(zip_powers(cs, 256), debug)

sum(cs, debug) == linear_combination([k \in 1..Len(cs) |-> <<cs[k], 1>>], debug)

\* .iter().map(|&(c, f)| v[c] * f).sum()
RECURSIVE SumTerms(_, _)
SumTerms(terms, v) ==
    IF terms = << >> THEN 0
    ELSE Add(Mul(v[Head(terms)[1] + 1], Head(terms)[2]), SumTerms(Tail(terms), v))

eval(column, v) ==
    Add(SumTerms(column.linear_combination, v), column.constant)

eval_with_next(column, v, next_v) ==
    Add(Add(SumTerms(column.linear_combination, v),
            SumTerms(column.next_row_linear_combination, next_v)),
        column.constant)

\* The values of every column of a column-major table at one row.
RowValues(table, row) == [c \in 1..Len(table) |-> table[c][row + 1]]

\* table[0].values.len()
Degree(table) == Len(table[1])

\* table[c].values[r] exists.
InTable(table, c, r) == c < Len(table) /\ r < Len(table[c + 1])

\* The terms of a list that a map over it reaches when it indexes row r: the
\* indexing panics at the first term whose cell is out of range.
Reached(terms, table, r) ==
    {k \in 1..Len(terms) : \A j \in 1..(k - 1) : InTable(table, terms[j][1], r)}

\* row < table[0].values.len() - 1, the subtraction being one of usize: on a
\* table without rows it underflows.  A build with overflow checks panics
\* there; a build without them wraps to usize::MAX, which every row is below.
row_before_last(table, row, overflow_checks) ==
    IF Degree(table) = 0 THEN [panic |-> overflow_checks, value |-> TRUE]
    ELSE [panic |-> FALSE, value |-> row < Degree(table) - 1]

\* The (column, row) cells of the table that eval_table indexes, the one at
\* which an indexing panics included.
eval_table_reads(column, table, row, overflow_checks) ==
    LET current == column.linear_combination
        next == column.next_row_linear_combination
        current_indexed ==
            \A k \in 1..Len(current) : InTable(table, current[k][1], row)
        next_indexed ==
            /\ current_indexed
            /\ next # << >>
            /\ Len(table) > 0
            /\ ~row_before_last(table, row, overflow_checks).panic
            /\ row_before_last(table, row, overflow_checks).value
    IN  {<<current[k][1], row>> : k \in Reached(current, table, row)}
        \cup (IF next_indexed
               THEN {<<next[k][1], row + 1>> : k \in Reached(next, table, row + 1)}
               ELSE {})

\* eval_table.  A result is [panic, value]: the call panics when it indexes
\* a cell that is out of range and, with overflow checks, when the next-row
\* list is not empty and column 0 has no row (len() - 1 underflows).
\* Without overflow checks the bound wraps, the next row is taken and the
\* call returns if the columns of the next-row list have that row.
eval_table(column, table, row, overflow_checks) ==
    LET current == column.linear_combination
        next == column.next_row_linear_combination
        panicked == [panic |-> TRUE, value |-> 0]
    IN  IF \E k \in 1..Len(current) : ~InTable(table, current[k][1], row)
        THEN panicked
        ELSE LET res == Add(SumTerms(current, RowValues(table, row)),
                            column.constant)
             IN  IF next = << >> THEN [panic |-> FALSE, value |-> res]
                 ELSE IF Len(table) = 0 THEN panicked
                 ELSE IF row_before_last(table, row, overflow_checks).panic
                 THEN panicked
                 ELSE IF ~row_before_last(table, row, overflow_checks).value
                 THEN [panic |-> FALSE, value |-> res]
                 ELSE IF \E k \in 1..Len(next) : ~InTable(table, next[k][1], row + 1)
                 THEN panicked
                 ELSE [panic |-> FALSE,
                       value |-> Add(res, SumTerms(next, RowValues(table, row + 1)))]

\* builder.inner_product_extension(F::ONE, constant, pairs):
\* acc = constant; for (a, b) in pairs: acc = ONE * a * b + acc.
RECURSIVE inner_product_extension(_, _, _)
inner_product_extension(constant_0, starting_acc, pairs) ==
    IF pairs = << >> THEN starting_acc
    ELSE inner_product_extension(
            constant_0,
            Add(Mul(constant_0, Mul(Head(pairs)[1], Head(pairs)[2])), starting_acc),
            Tail(pairs))

\* The (target, constant) pairs of one linear combination over a row of targets.
Pairs(terms, v) == [k \in 1..Len(terms) |-> <<v[terms[k][1] + 1], terms[k][2]>>]

eval_circuit(column, v) ==
    inner_product_extension(1, column.constant, Pairs(column.linear_combination, v))

eval_with_next_circuit(column, v, next_v) ==
    inner_product_extension(1, column.constant,
        Pairs(column.linear_combination, v)
            \o Pairs(column.next_row_linear_combination, next_v))

(***************************************************************************)
(* TableWithColumns and CrossTableLookup.                                  *)
(***************************************************************************)
TableWithColumns(table, columns, filter_column) ==
    [table |-> table, columns |-> columns, filter_column |-> filter_column]

CrossTableLookup(looking_tables, looked_table) ==
    [looking_tables |-> looking_tables, looked_table |-> looked_table]

\* Faulty variant of CrossTableLookup_new: only the first looking table is compared.
CrossTableLookup_new_first_only(looking_tables, looked_table) ==
    IF looking_tables # << >>
       /\ Len(looking_tables[1].columns) # Len(looked_table.columns)
    THEN [panic |-> TRUE, lookup |-> CrossTableLookup(<< >>, looked_table)]
    ELSE [panic |-> FALSE, lookup |-> CrossTableLookup(looking_tables, looked_table)]

\* CrossTableLookup::new.  A result is [panic, lookup].
CrossTableLookup_new(looking_tables, looked_table) ==
    IF \A k \in 1..Len(looking_tables) :
          Len(looking_tables[k].columns) = Len(looked_table.columns)
    THEN [panic |-> FALSE, lookup |-> CrossTableLookup(looking_tables, looked_table)]
    ELSE [panic |-> TRUE, lookup |-> CrossTableLookup(<< >>, looked_table)]

(***************************************************************************)
(* GrandProductChallenge.                                                  *)
(***************************************************************************)
GrandProductChallenge(beta, gamma) == [beta |-> beta, gamma |-> gamma]

\* Faulty variant of reduce_with_powers: the Horner reduction takes the terms
\* from the front, so the first term carries the highest power.
RECURSIVE reduce_with_powers_from_front(_, _)
reduce_with_powers_from_front(terms, alpha) ==
    IF terms = << >> THEN 0
    ELSE Add(Mul(reduce_with_powers_from_front(
                    SubSeq(terms, 1, Len(terms) - 1), alpha), alpha),
             terms[Len(terms)])

\* plonk_common::reduce_with_powers, imported at line 47.  combine must
\* declare T::IntoIter: DoubleEndedIterator (line 418) only to hand its
\* terms over, so the reduction takes them from the back; it is a Horner
\* reduction, sum = sum * alpha + term, so the last term is multiplied by
\* alpha most often and the first term not at all:
\* terms[0] + alpha * terms[1] + ... + alpha^(n-1) * terms[n-1].
RECURSIVE reduce_with_powers(_, _)
reduce_with_powers(terms, alpha) ==
    IF terms = << >> THEN 0
    ELSE Add(Mul(reduce_with_powers(Tail(terms), alpha), alpha), Head(terms))

combine(challenge, terms) ==
    Add(reduce_with_powers(terms, challenge.beta), challenge.gamma)

\* reduce_with_powers_ext_circuit followed by add_extension(reduced, gamma)
combine_circuit(challenge, terms) ==
    Add(reduce_with_powers(terms, challenge.beta), challenge.gamma)

(***************************************************************************)
(* Challenge derivation.  A challenger is the transcript: the elements it  *)
(* will produce, and how many it has produced.                             *)
(***************************************************************************)
\* challenger.get_challenge(): the next element, and the advanced challenger
get_challenge(ch) ==
    [value |-> ch.transcript[ch.position + 1],
     challenger |-> [ch EXCEPT !.position = @ + 1]]

\* Faulty variant of get_grand_product_challenge: gamma is drawn before beta.
get_grand_product_challenge_gamma_first(ch) ==
    LET gamma == get_challenge(ch)
        beta  == get_challenge(gamma.challenger)
    IN  [challenge |-> GrandProductChallenge(beta.value, gamma.value),
         challenger |-> beta.challenger]

get_grand_product_challenge(ch) ==
    LET beta  == get_challenge(ch)
        gamma == get_challenge(beta.challenger)
    IN  [challenge |-> GrandProductChallenge(beta.value, gamma.value),
         challenger |-> gamma.challenger]

\* (0..num_challenges).map(|_| get_grand_product_challenge(challenger)).collect()
RECURSIVE get_grand_product_challenge_set(_, _)
get_grand_product_challenge_set(ch, n_challenges) ==
    IF n_challenges = 0 THEN [challenges |-> << >>, challenger |-> ch]
    ELSE LET first == get_grand_product_challenge(ch)
             rest  == get_grand_product_challenge_set(first.challenger, n_challenges - 1)
         IN  [challenges |-> <<first.challenge>> \o rest.challenges,
              challenger |-> rest.challenger]

\* Faulty variant of get_grand_product_challenge_target: gamma is drawn before beta.
get_grand_product_challenge_target_gamma_first(ch) ==
    LET gamma == get_challenge(ch)
        beta  == get_challenge(gamma.challenger)
    IN  [challenge |-> GrandProductChallenge(beta.value, gamma.value),
         challenger |-> beta.challenger]

get_grand_product_challenge_target(ch) ==
    LET beta  == get_challenge(ch)
        gamma == get_challenge(beta.challenger)
    IN  [challenge |-> GrandProductChallenge(beta.value, gamma.value),
         challenger |-> gamma.challenger]

RECURSIVE get_grand_product_challenge_set_target(_, _)
get_grand_product_challenge_set_target(ch, n_challenges) ==
    IF n_challenges = 0 THEN [challenges |-> << >>, challenger |-> ch]
    ELSE LET first == get_grand_product_challenge_target(ch)
             rest  == get_grand_product_challenge_set_target(first.challenger,
                                                            n_challenges - 1)
         IN  [challenges |-> <<first.challenge>> \o rest.challenges,
              challenger |-> rest.challenger]

(***************************************************************************)
(* The encoding of a GrandProductChallengeSet<Target>.  A buffer is a      *)
(* sequence of bytes; reading goes on at a position.  A usize is written   *)
(* as the 8 bytes of a u64, least significant first; the model holds       *)
(* numbers below 2^31 and reads any greater one as Huge.  A Target is a    *)
(* Wire {row, column} or a VirtualTarget {index}.                          *)
(***************************************************************************)
Wire(row, column) == [is_wire |-> TRUE, row |-> row, column |-> column, index |-> 0]

VirtualTarget(index) == [is_wire |-> FALSE, row |-> 0, column |-> 0, index |-> index]

\* a usize of 2^31 or more
Huge == -1

\* (x as u64).to_le_bytes()
to_le_bytes(x) ==
    IF x = Huge THEN <<255, 255, 255, 255, 255, 255, 255, 255>>
    ELSE <<x % 256, (x \div 256) % 256, (x \div 65536) % 256, (x \div 16777216) % 256,
           0, 0, 0, 0>>

\* u64::from_le_bytes(buf) as usize
from_le_bytes(b) ==
    IF b[4] >= 128 \/ b[5] # 0 \/ b[6] # 0 \/ b[7] # 0 \/ b[8] # 0 THEN Huge
    ELSE b[1] + 256 * b[2] + 65536 * b[3] + 16777216 * b[4]

write_usize(bytes, x) == bytes \o to_le_bytes(x)

write_bool(bytes, b) == bytes \o <<IF b THEN 1 ELSE 0>>

write_target(bytes, x) ==
    IF x.is_wire
    THEN write_usize(write_usize(write_bool(bytes, TRUE), x.row), x.column)
    ELSE write_usize(write_bool(bytes, FALSE), x.index)

\* The result of a read: [err, value, position].
ReadErr(position) == [err |-> TRUE, value |-> 0, position |-> position]

ReadOk(value, position) == [err |-> FALSE, value |-> value, position |-> position]

read_usize(bytes, position) ==
    IF position + 8 > Len(bytes) THEN ReadErr(position)
    ELSE ReadOk(from_le_bytes([i \in 1..8 |-> bytes[position + i]]), position + 8)

read_bool(bytes, position) ==
    IF position + 1 > Len(bytes) THEN ReadErr(position)
    ELSE IF bytes[position + 1] = 0 THEN ReadOk(FALSE, position + 1)
    ELSE IF bytes[position + 1] = 1 THEN ReadOk(TRUE, position + 1)
    ELSE ReadErr(position + 1)

read_target(bytes, position) ==
    LET is_wire == read_bool(bytes, position)
    IN  IF is_wire.err THEN ReadErr(is_wire.position)
        ELSE IF is_wire.value
        THEN LET row == read_usize(bytes, is_wire.position)
             IN  IF row.err THEN ReadErr(row.position)
                 ELSE LET column == read_usize(bytes, row.position)
                      IN  IF column.err THEN ReadErr(column.position)
                          ELSE ReadOk(Wire(row.value, column.value), column.position)
        ELSE LET index == read_usize(bytes, is_wire.position)
             IN  IF index.err THEN ReadErr(index.position)
                 ELSE ReadOk(VirtualTarget(index.value), index.position)

\* Faulty variant of to_buffer_loop: gamma is written before beta.
RECURSIVE to_buffer_loop_gamma_first(_, _)
to_buffer_loop_gamma_first(bytes, challenges) ==
    IF challenges = << >> THEN bytes
    ELSE to_buffer_loop_gamma_first(
            write_target(write_target(bytes, Head(challenges).gamma),
                         Head(challenges).beta),
            Tail(challenges))

\* for challenge in &self.challenges { write beta; write gamma; }
RECURSIVE to_buffer_loop(_, _)
to_buffer_loop(bytes, challenges) ==
    IF challenges = << >> THEN bytes
    ELSE to_buffer_loop(
            write_target(write_target(bytes, Head(challenges).beta),
                         Head(challenges).gamma),
            Tail(challenges))

to_buffer(challenges, bytes) ==
    to_buffer_loop(write_usize(bytes, Len(challenges)), challenges)

FromBufferOutcome(kind, challenges, position) ==
    [kind |-> kind, challenges |-> challenges, position |-> position]

\* for _ in 0..length { challenges.push(GrandProductChallenge { beta: .., gamma: .. }); }
RECURSIVE from_buffer_loop(_, _, _, _, _)
from_buffer_loop(bytes, position, length, i, challenges) ==
    IF i = length THEN FromBufferOutcome("Ok", challenges, position)
    ELSE LET beta == read_target(bytes, position)
         IN  IF beta.err THEN FromBufferOutcome("Err", << >>, beta.position)
             ELSE LET gamma == read_target(bytes, beta.position)
                  IN  IF gamma.err THEN FromBufferOutcome("Err", << >>, gamma.position)
                      ELSE from_buffer_loop(bytes, gamma.position, length, i + 1,
                              Append(challenges,
                                     GrandProductChallenge(beta.value, gamma.value)))

\* Vec::with_capacity(length) asks the allocator for length elements before
\* any challenge is read.  A challenge takes at least 2 * (1 + 8) bytes of
\* the buffer, so a length that the bytes left in the buffer can hold asks
\* for memory in proportion to the buffer the caller already holds, as every
\* other vector of the program does; running out of memory there is left
\* out, as it is for those.  A greater length is a number that no data
\* stands behind: whether it is served depends on the memory of the machine,
\* and when it is not the call panics (capacity overflow) or the process is
\* aborted.
with_capacity_may_fail(length, remaining) ==
    length = Huge \/ length > remaining \div (2 * (1 + 8))

\* from_buffer; allocated tells whether the allocator serves a capacity that
\* it may refuse.
from_buffer(bytes, position, allocated) ==
    LET length == read_usize(bytes, position)
    IN  IF length.err THEN FromBufferOutcome("Err", << >>, length.position)
        ELSE IF with_capacity_may_fail(length.value, Len(bytes) - length.position)
                /\ ~allocated
        THEN FromBufferOutcome("Panic", << >>, length.position)
        ELSE from_buffer_loop(bytes, length.position, length.value, 0, << >>)

(***************************************************************************)
(* partial_products: the Z sequence of one table, one lookup and one       *)
(* challenge.  A result is [panic, values]; panic is the failed            *)
(* assert_eq!(filter, F::ZERO, "Non-binary filter?") or an index out of    *)
(* range in eval_table.  The rows of the loop are rows of column 0, so     *)
(* len() - 1 does not underflow in eval_table and the overflow checks of   *)
(* the build make no difference there.                                     *)
(***************************************************************************)
Reverse(s) == [k \in 1..Len(s) |-> s[Len(s) + 1 - k]]

\* Faulty variant of partial_products_step: the product is assigned, not multiplied.
partial_products_step_assign(trace, columns, filter_column, challenge, i, partial_prod) ==
    LET filter == IF filter_column # << >>
                  THEN eval_table(filter_column[1], trace, i, FALSE)
                  ELSE [panic |-> FALSE, value |-> 1]
    IN  IF filter.panic THEN [panic |-> TRUE, partial_prod |-> partial_prod]
        ELSE IF filter.value = 1
        THEN IF \E k \in 1..Len(columns) :
                   eval_table(columns[k], trace, i, FALSE).panic
             THEN [panic |-> TRUE, partial_prod |-> partial_prod]
             ELSE [panic |-> FALSE,
                   partial_prod |-> combine(challenge,
                       [k \in 1..Len(columns) |->
                           eval_table(columns[k], trace, i, FALSE).value])]
        ELSE [panic |-> filter.value # 0, partial_prod |-> partial_prod]

\* Faulty variant of partial_products_step: the filter is not consulted.
partial_products_step_unfiltered(trace, columns, filter_column, challenge, i, partial_prod) ==
    IF \E k \in 1..Len(columns) : eval_table(columns[k], trace, i, FALSE).panic
    THEN [panic |-> TRUE, partial_prod |-> partial_prod]
    ELSE [panic |-> FALSE,
          partial_prod |-> Mul(partial_prod,
             combine(challenge, [k \in 1..Len(columns) |->
                                    eval_table(columns[k], trace, i, FALSE).value]))]

\* The body of the loop over the rows, before the push: the new partial_prod.
\* An eval_table that panics (the filter's or, the filter being one, a
\* column's) ends the call, as the failed assert_eq! does.
partial_products_step(trace, columns, filter_column, challenge, i, partial_prod) ==
    LET filter == IF filter_column # << >>
                  THEN eval_table(filter_column[1], trace, i, FALSE)
                  ELSE [panic |-> FALSE, value |-> 1]
    IN  IF filter.panic THEN [panic |-> TRUE, partial_prod |-> partial_prod]
        ELSE IF filter.value = 1
        THEN IF \E k \in 1..Len(columns) :
                   eval_table(columns[k], trace, i, FALSE).panic
             THEN [panic |-> TRUE, partial_prod |-> partial_prod]
             ELSE LET evals == [k \in 1..Len(columns) |->
                                   eval_table(columns[k], trace, i, FALSE).value]
                  IN  [panic |-> FALSE,
                       partial_prod |-> Mul(partial_prod, combine(challenge, evals))]
        ELSE IF filter.value = 0
             THEN [panic |-> FALSE, partial_prod |-> partial_prod]
             ELSE [panic |-> TRUE, partial_prod |-> partial_prod]

\* Faulty variant of partial_products_loop: the product is pushed before it is updated.
RECURSIVE partial_products_loop_push_first(_, _, _, _, _, _, _)
partial_products_loop_push_first(trace, columns, filter_column, challenge, i, partial_prod, res) ==
    IF i < 0 THEN [panic |-> FALSE, values |-> res]
    ELSE LET s == partial_products_step(trace, columns, filter_column, challenge,
                                        i, partial_prod)
         IN  IF s.panic THEN [panic |-> TRUE, values |-> << >>]
             ELSE partial_products_loop_push_first(trace, columns, filter_column, challenge,
                        i - 1, s.partial_prod, Append(res, partial_prod))

\* for i in (0..degree).rev() { ...; res.push(partial_prod); }
RECURSIVE partial_products_loop(_, _, _, _, _, _, _)
partial_products_loop(trace, columns, filter_column, challenge, i, partial_prod, res) ==
    IF i < 0 THEN [panic |-> FALSE, values |-> res]
    ELSE LET s == partial_products_step(trace, columns, filter_column, challenge,
                                        i, partial_prod)
         IN  IF s.panic THEN [panic |-> TRUE, values |-> << >>]
             ELSE partial_products_loop(trace, columns, filter_column, challenge,
                        i - 1, s.partial_prod, Append(res, s.partial_prod))

\* Faulty variant of partial_products: res.reverse() is left out.
partial_products_not_reversed(trace, columns, filter_column, challenge) ==
    IF Len(trace) = 0 THEN [panic |-> TRUE, values |-> << >>]
    ELSE partial_products_loop(trace, columns, filter_column, challenge,
                               Degree(trace) - 1, 1, << >>)

\* trace[0].len() panics on a trace without columns.
partial_products(trace, columns, filter_column, challenge) ==
    IF Len(trace) = 0 THEN [panic |-> TRUE, values |-> << >>]
    ELSE LET r == partial_products_loop(trace, columns, filter_column, challenge,
                                        Degree(trace) - 1, 1, << >>)
         IN  [panic |-> r.panic, values |-> Reverse(r.values)]

(***************************************************************************)
(* cross_table_lookup_data.  The CtlZData are listed in the order of the   *)
(* pushes; each carries the table whose zs_columns it is pushed to and     *)
(* (history only) the place of the push: lookup, challenge, role and       *)
(* position among the looking tables.                                      *)
(***************************************************************************)
Origin(lookup, challenge, role, position) ==
    [lookup |-> lookup, challenge |-> challenge, role |-> role, position |-> position]

CtlZData(z, challenge, twc, origin) ==
    [z |-> z.values, panic |-> z.panic, challenge |-> challenge,
     columns |-> twc.columns, filter_column |-> twc.filter_column,
     table |-> twc.table, origin |-> origin]

\* Faulty variant of LookupPushes: the looked table's Z is pushed before the looking ones.
LookupPushes_looked_first(traces, ctl, challenge, li, ci) ==
    LET looking == ctl.looking_tables
        looked  == ctl.looked_table
    IN  << CtlZData(partial_products(traces[looked.table + 1], looked.columns,
                                     looked.filter_column, challenge),
                    challenge, looked, Origin(li, ci, "looked", 0)) >>
        \o [k \in 1..Len(looking) |->
              CtlZData(partial_products(traces[looking[k].table + 1], looking[k].columns,
                                        looking[k].filter_column, challenge),
                       challenge, looking[k], Origin(li, ci, "looking", k - 1))]

\* Faulty variant of LookupPushes: the looked table's Z is computed with the filter dropped.
LookupPushes_looked_unfiltered(traces, ctl, challenge, li, ci) ==
    LET looking == ctl.looking_tables
        looked  == ctl.looked_table
    IN  [k \in 1..Len(looking) |->
            CtlZData(partial_products(traces[looking[k].table + 1], looking[k].columns,
                                      looking[k].filter_column, challenge),
                     challenge, looking[k], Origin(li, ci, "looking", k - 1))]
        \o << CtlZData(partial_products(traces[looked.table + 1], looked.columns,
                                        << >>, challenge),
                       challenge, looked, Origin(li, ci, "looked", 0)) >>

\* The body of the loop over the challenges: the pushes of lookup li, challenge ci.
LookupPushes(traces, ctl, challenge, li, ci) ==
    LET looking == ctl.looking_tables
        looked  == ctl.looked_table
    IN  [k \in 1..Len(looking) |->
            CtlZData(partial_products(traces[looking[k].table + 1], looking[k].columns,
                                      looking[k].filter_column, challenge),
                     challenge, looking[k], Origin(li, ci, "looking", k - 1))]
        \o << CtlZData(partial_products(traces[looked.table + 1], looked.columns,
                                        looked.filter_column, challenge),
                       challenge, looked, Origin(li, ci, "looked", 0)) >>

\* for &challenge in &ctl_challenges.challenges
RECURSIVE ChallengePushes(_, _, _, _, _)
ChallengePushes(traces, ctl, challenges, li, ci) ==
    IF ci >= Len(challenges) THEN << >>
    ELSE LookupPushes(traces, ctl, challenges[ci + 1], li, ci)
            \o ChallengePushes(traces, ctl, challenges, li, ci + 1)

\* for CrossTableLookup { looking_tables, looked_table } in cross_table_lookups
RECURSIVE AllPushes(_, _, _, _)
AllPushes(traces, ctls, challenges, li) ==
    IF li >= Len(ctls) THEN << >>
    ELSE ChallengePushes(traces, ctls[li + 1], challenges, li, 0)
            \o AllPushes(traces, ctls, challenges, li + 1)

cross_table_lookup_data(traces, ctls, challenges) ==
    LET pushes == AllPushes(traces, ctls, challenges, 0)
        panic  == \E k \in 1..Len(pushes) : pushes[k].panic
    IN  [panic |-> panic,
         data  |-> [t \in 1..Len(traces) |->
                      IF panic THEN << >>
                      ELSE SelectSeq(pushes, LAMBDA p : p.table = t - 1)]]

(***************************************************************************)
(* verify_cross_table_lookups.  iters[t + 1] is the number of openings     *)
(* already taken from table t's iterator; log lists (history only) what    *)
(* each taken opening was used for.  A result is [kind, index, iters,      *)
(* log]: kind is "Ok", "Err" (the ensure! failed at lookup index) or       *)
(* "Panic" (an unwrap of None, an index out of bounds, or the              *)
(* debug_assert!).                                                         *)
(***************************************************************************)
HasNext(zs, iters, t) == iters[t + 1] < Len(zs[t + 1])

NextOpening(zs, iters, t) == zs[t + 1][iters[t + 1] + 1]

Advance(iters, t) == [iters EXCEPT ![t + 1] = @ + 1]

Used(t, origin) == [table |-> t, origin |-> origin]

\* Faulty variant of looking_zs_product: a missing opening counts as one.
RECURSIVE looking_zs_product_missing_as_one(_, _, _, _, _, _)
looking_zs_product_missing_as_one(looking_tables, zs, st, k, index, c) ==
    IF k > Len(looking_tables) THEN st
    ELSE LET t == looking_tables[k].table
         IN  IF ~HasNext(zs, st.iters, t)
             THEN looking_zs_product_missing_as_one(looking_tables, zs, st,
                                                    k + 1, index, c)
             ELSE looking_zs_product_missing_as_one(looking_tables, zs,
                    [panic |-> FALSE,
                     prod  |-> Mul(st.prod, NextOpening(zs, st.iters, t)),
                     iters |-> Advance(st.iters, t),
                     log   |-> Append(st.log, Used(t, Origin(index, c, "looking", k - 1)))],
                    k + 1, index, c)

\* looking_tables.iter().map(|table| *ctl_zs_openings[table].next().unwrap()).product()
RECURSIVE looking_zs_product(_, _, _, _, _, _)
looking_zs_product(looking_tables, zs, st, k, index, c) ==
    IF k > Len(looking_tables) THEN st
    ELSE LET t == looking_tables[k].table
         IN  IF ~HasNext(zs, st.iters, t) THEN [st EXCEPT !.panic = TRUE]
             ELSE looking_zs_product(looking_tables, zs,
                    [panic |-> FALSE,
                     prod  |-> Mul(st.prod, NextOpening(zs, st.iters, t)),
                     iters |-> Advance(st.iters, t),
                     log   |-> Append(st.log, Used(t, Origin(index, c, "looking", k - 1)))],
                    k + 1, index, c)

VerifyOutcome(kind, index, iters, log) ==
    [kind |-> kind, index |-> index, iters |-> iters, log |-> log]

\* debug_assert!(ctl_zs_openings.iter_mut().all(|iter| iter.next().is_none())); Ok(())
verify_end(zs, debug, iters, log) ==
    IF debug /\ \E t \in 0..(Len(zs) - 1) : HasNext(zs, iters, t)
    THEN VerifyOutcome("Panic", -1, iters, log)
    ELSE VerifyOutcome("Ok", -1, iters, log)

\* Faulty variant of looked_check: the extra product is left out of the comparison.
looked_check_no_extra(looking_zs_prod, extra_product, looked_z) ==
    looking_zs_prod = looked_z

\* ensure!(looking_zs_prod == looked_z), looking_zs_prod including extra_product_vec[c]
looked_check(looking_zs_prod, extra_product, looked_z) ==
    Mul(looking_zs_prod, extra_product) = looked_z

RECURSIVE verify_loop(_, _, _, _, _, _, _, _, _)
verify_loop(ctls, zs, extra, nch, debug, index, c, iters, log) ==
    IF index >= Len(ctls) THEN verify_end(zs, debug, iters, log)
    ELSE
      LET looking == ctls[index + 1].looking_tables
          looked  == ctls[index + 1].looked_table.table
      IN  IF looked >= Len(extra) THEN VerifyOutcome("Panic", -1, iters, log)
          ELSE IF c >= nch
          THEN verify_loop(ctls, zs, extra, nch, debug, index + 1, 0, iters, log)
          ELSE
            LET lk == looking_zs_product(looking, zs,
                        [panic |-> FALSE, prod |-> 1, iters |-> iters, log |-> log],
                        1, index, c)
            IN  IF lk.panic \/ c >= Len(extra[looked + 1])
                THEN VerifyOutcome("Panic", -1, lk.iters, lk.log)
                ELSE IF ~HasNext(zs, lk.iters, looked)
                THEN VerifyOutcome("Panic", -1, lk.iters, lk.log)
                ELSE
                  LET looked_z == NextOpening(zs, lk.iters, looked)
                      iters2   == Advance(lk.iters, looked)
                      log2     == Append(lk.log, Used(looked, Origin(index, c, "looked", 0)))
                  IN  IF ~looked_check(lk.prod, extra[looked + 1][c + 1], looked_z)
                      THEN VerifyOutcome("Err", index, iters2, log2)
                      ELSE verify_loop(ctls, zs, extra, nch, debug, index, c + 1,
                                       iters2, log2)

verify_cross_table_lookups(ctls, zs, extra, nch, debug) ==
    verify_loop(ctls, zs, extra, nch, debug, 0, 0, [t \in 1..Len(zs) |-> 0], << >>)

(***************************************************************************)
(* eval_cross_table_lookup_checks and its circuit version.  The consumer   *)
(* is modelled by the list of constraints it is given, each with its kind. *)
(***************************************************************************)
CtlCheckVars(local_z, next_z, challenges, columns, filter_column) ==
    [local_z |-> local_z, next_z |-> next_z, challenges |-> challenges,
     columns |-> columns, filter_column |-> filter_column]

constraint_last_row(value) == [kind |-> "last_row", value |-> value]

constraint_transition(value) == [kind |-> "transition", value |-> value]

\* Faulty variant of eval_cross_table_lookup_check: select is filter * combined,
\* an unselected row does not pass one through.
eval_cross_table_lookup_check_no_passthrough(local_values, next_values, lookup_vars) ==
    LET evals == [k \in 1..Len(lookup_vars.columns) |->
                    eval_with_next(lookup_vars.columns[k], local_values, next_values)]
        combined == combine(lookup_vars.challenges, evals)
        local_filter == IF lookup_vars.filter_column # << >>
                        THEN eval_with_next(lookup_vars.filter_column[1],
                                            local_values, next_values)
                        ELSE 1
        select == Mul(local_filter, combined)
    IN  << constraint_last_row(Sub(lookup_vars.local_z, select)),
           constraint_transition(Sub(Mul(lookup_vars.next_z, select),
                                     lookup_vars.local_z)) >>

\* The two constraints of one CtlCheckVars.
eval_cross_table_lookup_check(local_values, next_values, lookup_vars) ==
    LET evals == [k \in 1..Len(lookup_vars.columns) |->
                    eval_with_next(lookup_vars.columns[k], local_values, next_values)]
        combined == combine(lookup_vars.challenges, evals)
        local_filter == IF lookup_vars.filter_column # << >>
                        THEN eval_with_next(lookup_vars.filter_column[1],
                                            local_values, next_values)
                        ELSE 1
        select == Sub(Add(Mul(local_filter, combined), 1), local_filter)
    IN  << constraint_last_row(Sub(lookup_vars.local_z, select)),
           constraint_transition(Sub(Mul(lookup_vars.next_z, select),
                                     lookup_vars.local_z)) >>

RECURSIVE eval_cross_table_lookup_checks(_, _, _)
eval_cross_table_lookup_checks(local_values, next_values, ctl_vars) ==
    IF ctl_vars = << >> THEN << >>
    ELSE eval_cross_table_lookup_check(local_values, next_values, Head(ctl_vars))
            \o eval_cross_table_lookup_checks(local_values, next_values, Tail(ctl_vars))

sub_extension(a, b) == Sub(a, b)

mul_add_extension(a, b, c) == Add(Mul(a, b), c)

mul_sub_extension(a, b, c) == Sub(Mul(a, b), c)

\* fn select: filter * x + 1 - filter
select_circuit(filter, x) ==
    LET tmp == sub_extension(1, filter)
    IN  mul_add_extension(filter, x, tmp)

eval_cross_table_lookup_check_circuit(local_values, next_values, lookup_vars) ==
    LET local_filter == IF lookup_vars.filter_column # << >>
                        THEN eval_circuit(lookup_vars.filter_column[1], local_values)
                        ELSE 1
        evals == [k \in 1..Len(lookup_vars.columns) |->
                    eval_with_next_circuit(lookup_vars.columns[k],
                                           local_values, next_values)]
        combined == combine_circuit(lookup_vars.challenges, evals)
        select == select_circuit(local_filter, combined)
        last_row == sub_extension(lookup_vars.local_z, select)
        transition == mul_sub_extension(lookup_vars.next_z, select, lookup_vars.local_z)
    IN  << constraint_last_row(last_row), constraint_transition(transition) >>

RECURSIVE eval_cross_table_lookup_checks_circuit(_, _, _)
eval_cross_table_lookup_checks_circuit(local_values, next_values, ctl_vars) ==
    IF ctl_vars = << >> THEN << >>
    ELSE eval_cross_table_lookup_check_circuit(local_values, next_values, Head(ctl_vars))
            \o eval_cross_table_lookup_checks_circuit(local_values, next_values,
                                                      Tail(ctl_vars))

(***************************************************************************)
(* cpu/membus.rs: the constraints of the memory bus on one CPU row.  A     *)
(* CpuColumnsView is the record of the columns the constraints read; a     *)
(* consumer is the list of the constraints it was given.                   *)
(***************************************************************************)
\* pub const NUM_GP_CHANNELS: usize = 5; the number of lv.mem_channels
NUM_GP_CHANNELS == 5

\* struct CpuColumnsView: the fields membus reads
CpuColumnsView(is_kernel_mode, context, code_context, mem_channels) ==
    [is_kernel_mode |-> is_kernel_mode, context |-> context,
     code_context |-> code_context, mem_channels |-> mem_channels]

\* struct MemoryChannelView: the field membus reads
MemoryChannelView(used) == [used |-> used]

\* yield_constr.constraint(value)
constraint(value) == [kind |-> "constraint", value |-> value]

\* for channel in lv.mem_channels { yield_constr.constraint(channel.used * (channel.used - P::ONES)); }
eval_packed_channels(mem_channels) ==
    [k \in 1..Len(mem_channels) |->
        constraint(Mul(mem_channels[k].used, Sub(mem_channels[k].used, 1)))]

eval_packed(row) ==
    <<constraint(Sub(row.code_context,
                     Mul(Sub(1, row.is_kernel_mode), row.context)))>>
        \o eval_packed_channels(row.mem_channels)

\* for channel in lv.mem_channels { builder.mul_sub_extension(used, used, used) }
eval_ext_circuit_channels(mem_channels) ==
    [k \in 1..Len(mem_channels) |->
        constraint(mul_sub_extension(mem_channels[k].used, mem_channels[k].used,
                                     mem_channels[k].used))]

\* Faulty variant of eval_ext_circuit: diff is code_context - context.
eval_ext_circuit_diff_swapped(row) ==
    LET diff   == sub_extension(row.code_context, row.context)
        constr == mul_sub_extension(row.is_kernel_mode, row.context, diff)
    IN  <<constraint(constr)>> \o eval_ext_circuit_channels(row.mem_channels)

eval_ext_circuit(row) ==
    LET diff   == sub_extension(row.context, row.code_context)
        constr == mul_sub_extension(row.is_kernel_mode, row.context, diff)
    IN  <<constraint(constr)>> \o eval_ext_circuit_channels(row.mem_channels)

(***************************************************************************)
(* CtlCheckVars::from_proofs and CtlCheckVarsTarget::from_proof.  The      *)
(* openings of a proof are its auxiliary_polys and auxiliary_polys_next;   *)
(* an iterator over them is the list it runs over and the number of items  *)
(* it has yielded.  An unwrap() of None and a failed assert! abort the     *)
(* call: kind "Panic".                                                     *)
(***************************************************************************)
\* iter().skip(n), collected
skip(s, n) == IF n >= Len(s) THEN << >> ELSE SubSeq(s, n + 1, Len(s))

\* a.zip(b), collected: it ends with the shorter of the two
zip(a, b) ==
    [k \in 1..(IF Len(a) <= Len(b) THEN Len(a) ELSE Len(b)) |-> <<a[k], b[k]>>]

\* openings.auxiliary_polys.iter().skip(n).zip(openings.auxiliary_polys_next.iter().skip(n))
ctl_zs_of(proof, num_lookup) ==
    zip(skip(proof.auxiliary_polys, num_lookup),
        skip(proof.auxiliary_polys_next, num_lookup))

VarsOutcome(kind, ctl_vars) == [kind |-> kind, vars |-> ctl_vars]

\* let (z, z_next) = ctl_zs[table.table as usize].next().unwrap();
\* ctl_vars_per_table[table.table as usize].push(Self { .. });
from_proofs_push(st, ctl_zs, table, challenges) ==
    LET t == table.table + 1
    IN  IF st.position[t] >= Len(ctl_zs[t])
        THEN [st EXCEPT !.panic = TRUE]
        ELSE LET z == ctl_zs[t][st.position[t] + 1]
             IN  [st EXCEPT !.position[t] = @ + 1,
                            !.vars[t] = Append(@, CtlCheckVars(z[1], z[2], challenges,
                                                   table.columns, table.filter_column))]

\* for table in looking_tables { .. }
RECURSIVE from_proofs_looking(_, _, _, _)
from_proofs_looking(st, ctl_zs, looking_tables, challenges) ==
    IF looking_tables = << >> \/ st.panic THEN st
    ELSE from_proofs_looking(from_proofs_push(st, ctl_zs, Head(looking_tables), challenges),
                             ctl_zs, Tail(looking_tables), challenges)

\* the body of `for &challenges in &ctl_challenges.challenges`
from_proofs_challenge(st, ctl_zs, ctl, challenges) ==
    LET looking == from_proofs_looking(st, ctl_zs, ctl.looking_tables, challenges)
    IN  IF looking.panic THEN looking
        ELSE from_proofs_push(looking, ctl_zs, ctl.looked_table, challenges)

\* for &challenges in &ctl_challenges.challenges { .. }
RECURSIVE from_proofs_challenges(_, _, _, _)
from_proofs_challenges(st, ctl_zs, ctl, challenges) ==
    IF challenges = << >> \/ st.panic THEN st
    ELSE from_proofs_challenges(from_proofs_challenge(st, ctl_zs, ctl, Head(challenges)),
                                ctl_zs, ctl, Tail(challenges))

\* for CrossTableLookup { looking_tables, looked_table } in cross_table_lookups { .. }
RECURSIVE from_proofs_loop(_, _, _, _)
from_proofs_loop(st, ctl_zs, ctls, challenges) ==
    IF ctls = << >> \/ st.panic THEN st
    ELSE from_proofs_loop(from_proofs_challenges(st, ctl_zs, Head(ctls), challenges),
                          ctl_zs, Tail(ctls), challenges)

from_proofs(all_proofs, ctls, challenges, num_lookup) ==
    LET ctl_zs == [t \in 1..Len(all_proofs) |-> ctl_zs_of(all_proofs[t], num_lookup[t])]
        st     == from_proofs_loop([panic |-> FALSE,
                                    position |-> [t \in 1..Len(all_proofs) |-> 0],
                                    vars |-> [t \in 1..Len(all_proofs) |-> << >>]],
                                   ctl_zs, ctls, challenges)
    IN  IF st.panic THEN VarsOutcome("Panic", << >>) ELSE VarsOutcome("Ok", st.vars)

\* if table.table == table { let (z, z_next) = ctl_zs.next().unwrap(); ctl_vars.push(Self { .. }); }
from_proof_push(st, ctl_zs, table, twc, challenges) ==
    IF twc.table # table THEN st
    ELSE IF st.position >= Len(ctl_zs)
    THEN [st EXCEPT !.panic = TRUE]
    ELSE LET z == ctl_zs[st.position + 1]
         IN  [st EXCEPT !.position = @ + 1,
                        !.vars = Append(@, CtlCheckVars(z[1], z[2], challenges,
                                            twc.columns, twc.filter_column))]

\* for looking_table in looking_tables { .. }
RECURSIVE from_proof_looking(_, _, _, _, _)
from_proof_looking(st, ctl_zs, table, looking_tables, challenges) ==
    IF looking_tables = << >> \/ st.panic THEN st
    ELSE from_proof_looking(from_proof_push(st, ctl_zs, table, Head(looking_tables), challenges),
                            ctl_zs, table, Tail(looking_tables), challenges)

\* Faulty variant of from_proof_challenge: the opening of the looked table is
\* taken before those of the looking tables.
from_proof_challenge_looked_first(st, ctl_zs, table, ctl, challenges) ==
    LET looked == from_proof_push(st, ctl_zs, table, ctl.looked_table, challenges)
    IN  IF looked.panic THEN looked
        ELSE from_proof_looking(looked, ctl_zs, table, ctl.looking_tables, challenges)

\* the body of `for &challenges in &ctl_challenges.challenges`
from_proof_challenge(st, ctl_zs, table, ctl, challenges) ==
    LET looking == from_proof_looking(st, ctl_zs, table, ctl.looking_tables, challenges)
    IN  IF looking.panic THEN looking
        ELSE from_proof_push(looking, ctl_zs, table, ctl.looked_table, challenges)

\* for &challenges in &ctl_challenges.challenges { .. }
RECURSIVE from_proof_challenges(_, _, _, _, _)
from_proof_challenges(st, ctl_zs, table, ctl, challenges) ==
    IF challenges = << >> \/ st.panic THEN st
    ELSE from_proof_challenges(from_proof_challenge(st, ctl_zs, table, ctl, Head(challenges)),
                               ctl_zs, table, ctl, Tail(challenges))

\* for CrossTableLookup { looking_tables, looked_table } in cross_table_lookups { .. }
RECURSIVE from_proof_loop(_, _, _, _, _)
from_proof_loop(st, ctl_zs, table, ctls, challenges) ==
    IF ctls = << >> \/ st.panic THEN st
    ELSE from_proof_loop(from_proof_challenges(st, ctl_zs, table, Head(ctls), challenges),
                         ctl_zs, table, Tail(ctls), challenges)

from_proof(table, proof, ctls, challenges, num_lookup) ==
    LET ctl_zs == ctl_zs_of(proof, num_lookup)
        st     == from_proof_loop([panic |-> FALSE, position |-> 0, vars |-> << >>],
                                  ctl_zs, table, ctls, challenges)
    IN  IF st.panic THEN VarsOutcome("Panic", << >>)
        ELSE IF st.position < Len(ctl_zs)     \* assert!(ctl_zs.next().is_none())
        THEN VarsOutcome("Panic", << >>)
        ELSE VarsOutcome("Ok", st.vars)

(***************************************************************************)
(* CrossTableLookup::num_ctl_zs.                                           *)
(***************************************************************************)
\* std::iter::once(&ctl.looked_table).chain(&ctl.looking_tables)
all_tables(ctl) == <<ctl.looked_table>> \o ctl.looking_tables

\* Faulty variant of num_ctls_loop: only the looking tables are counted.
RECURSIVE num_ctls_loop_looking_only(_, _, _)
num_ctls_loop_looking_only(ctls, table, num_ctls) ==
    IF ctls = << >> THEN num_ctls
    ELSE num_ctls_loop_looking_only(Tail(ctls), table,
            num_ctls + Len(SelectSeq(Head(ctls).looking_tables,
                                     LAMBDA twc : twc.table = table)))

\* for ctl in ctls { num_ctls += all_tables.filter(|twc| twc.table == table).count(); }
RECURSIVE num_ctls_loop(_, _, _)
num_ctls_loop(ctls, table, num_ctls) ==
    IF ctls = << >> THEN num_ctls
    ELSE num_ctls_loop(Tail(ctls), table,
            num_ctls + Len(SelectSeq(all_tables(Head(ctls)),
                                     LAMBDA twc : twc.table = table)))

num_ctl_zs(ctls, table, n_challenges) ==
    num_ctls_loop(ctls, table, 0) * n_challenges

(***************************************************************************)
(* testutils: the consistency oracle.  A MultiSet maps a payload row to    *)
(* the list of its locations; it is modelled by the list of its            *)
(* insertions [row, location], from which the keys and the list of each    *)
(* key are read.  A HashMap is iterated in an unspecified order: the row   *)
(* reported by a failed check is any row the first failing loop can meet.  *)
(***************************************************************************)
\* Table::Cpu as usize and Table::Memory as usize (crate::all_stark::Table)
Cpu == 2

Memory == 6

\* multiset.entry(row).or_default().push(location)
Insert(multiset, row, location) == Append(multiset, [row |-> row, location |-> location])

\* the keys of a MultiSet
Keys(multiset) == {multiset[k].row : k \in 1..Len(multiset)}

\* multiset.get(row).unwrap_or(empty)
Locations(multiset, row) ==
    LET at == SelectSeq(multiset, LAMBDA e : e.row = row)
    IN  [k \in 1..Len(at) |-> at[k].location]

\* Faulty variant of process_table_loop: a filter other than one skips the row.
RECURSIVE process_table_loop_no_assert(_, _, _, _)
process_table_loop_no_assert(trace, table, i, multiset) ==
    IF i >= Degree(trace) THEN [panic |-> "", multiset |-> multiset]
    ELSE LET filter == IF table.filter_column # << >>
                       THEN eval_table(table.filter_column[1], trace, i, FALSE)
                       ELSE [panic |-> FALSE, value |-> 1]
         IN  IF filter.panic THEN [panic |-> "index", multiset |-> multiset]
             ELSE IF filter.value = 1
             THEN LET row == [k \in 1..Len(table.columns) |->
                                 eval_table(table.columns[k], trace, i, FALSE).value]
                  IN  IF \E k \in 1..Len(table.columns) :
                            eval_table(table.columns[k], trace, i, FALSE).panic
                      THEN [panic |-> "index", multiset |-> multiset]
                      ELSE process_table_loop_no_assert(trace, table, i + 1,
                              Insert(multiset, row, <<table.table, i>>))
             ELSE process_table_loop_no_assert(trace, table, i + 1, multiset)

\* for i in 0..trace[0].len() { ... }.  A result is [panic, multiset]: panic
\* is "" when the loop ends, "filter" for the assert_eq! and "index" for an
\* index out of range in eval_table.
RECURSIVE process_table_loop(_, _, _, _)
process_table_loop(trace, table, i, multiset) ==
    IF i >= Degree(trace) THEN [panic |-> "", multiset |-> multiset]
    ELSE LET filter == IF table.filter_column # << >>
                       THEN eval_table(table.filter_column[1], trace, i, FALSE)
                       ELSE [panic |-> FALSE, value |-> 1]
         IN  IF filter.panic THEN [panic |-> "index", multiset |-> multiset]
             ELSE IF filter.value = 1
             THEN LET row == [k \in 1..Len(table.columns) |->
                                 eval_table(table.columns[k], trace, i, FALSE).value]
                  IN  IF \E k \in 1..Len(table.columns) :
                            eval_table(table.columns[k], trace, i, FALSE).panic
                      THEN [panic |-> "index", multiset |-> multiset]
                      ELSE process_table_loop(trace, table, i + 1,
                              Insert(multiset, row, <<table.table, i>>))
             ELSE IF filter.value = 0
                  THEN process_table_loop(trace, table, i + 1, multiset)
                  ELSE [panic |-> "filter", multiset |-> multiset]

\* trace[0].len() panics on a trace without columns.
process_table(traces, table, multiset) ==
    IF Len(traces[table.table + 1]) = 0 THEN [panic |-> "index", multiset |-> multiset]
    ELSE process_table_loop(traces[table.table + 1], table, 0, multiset)

\* for table in looking_tables { process_table(.., table, &mut looking_multiset); }
RECURSIVE process_looking_tables(_, _, _)
process_looking_tables(traces, looking_tables, st) ==
    IF looking_tables = << >> \/ st.panic # "" THEN st
    ELSE process_looking_tables(traces, Tail(looking_tables),
            process_table(traces, Head(looking_tables), st.multiset))

\* for row in extra_memory_looking_values.iter() { ...push((Table::Cpu, 0)); }
RECURSIVE insert_extra(_, _)
insert_extra(multiset, extra) ==
    IF extra = << >> THEN multiset
    ELSE insert_extra(Insert(multiset, Head(extra), <<Cpu, 0>>), Tail(extra))

\* Faulty variant of check_locations: only an excess of looking rows panics.
check_locations_looking_excess(looking_locations, looked_locations) ==
    Len(looking_locations) > Len(looked_locations)

\* check_locations panics
check_locations(looking_locations, looked_locations) ==
    Len(looking_locations) # Len(looked_locations)

CheckOutcome(kind, ctl_index, rows) == [kind |-> kind, ctl_index |-> ctl_index, rows |-> rows]

\* The outcome of one lookup: "Ok", "NonBinary" (the assert_eq! of
\* process_table), "OutOfBounds" (an index out of range in process_table;
\* the looking tables are processed first) or "Mismatch" (the panic! of
\* check_locations) with the rows the panic can report.
check_ctl(traces, ctl, ctl_index, extra) ==
    LET looking == process_looking_tables(traces, ctl.looking_tables,
                        [panic |-> "", multiset |-> << >>])
        looked  == process_table(traces, ctl.looked_table, << >>)
        panic   == IF looking.panic # "" THEN looking.panic ELSE looked.panic
    IN  IF panic = "filter" THEN CheckOutcome("NonBinary", ctl_index, {})
        ELSE IF panic = "index" THEN CheckOutcome("OutOfBounds", ctl_index, {})
        ELSE
          LET looking_multiset == IF ctl_index = Memory
                                  THEN insert_extra(looking.multiset, extra)
                                  ELSE looking.multiset
              looked_multiset  == looked.multiset
              first  == {row \in Keys(looking_multiset) :
                            check_locations(Locations(looking_multiset, row),
                                            Locations(looked_multiset, row))}
              second == {row \in Keys(looked_multiset) :
                            check_locations(Locations(looking_multiset, row),
                                            Locations(looked_multiset, row))}
          IN  IF first # {} THEN CheckOutcome("Mismatch", ctl_index, first)
              ELSE IF second # {} THEN CheckOutcome("Mismatch", ctl_index, second)
              ELSE CheckOutcome("Ok", ctl_index, {})

\* for (i, ctl) in cross_table_lookups.iter().enumerate() { check_ctl(.., ctl, i, ..); }
RECURSIVE check_ctls_loop(_, _, _, _)
check_ctls_loop(traces, ctls, i, extra) ==
    IF i >= Len(ctls) THEN CheckOutcome("Ok", -1, {})
    ELSE LET r == check_ctl(traces, ctls[i + 1], i, extra)
         IN  IF r.kind # "Ok" THEN r
             ELSE check_ctls_loop(traces, ctls, i + 1, extra)

check_ctls(traces, ctls, extra) == check_ctls_loop(traces, ctls, 0, extra)

(***************************************************************************)
(* Bounds and input sets.                                                  *)
(***************************************************************************)
MaxRows == 3          \* rows of the single trace of SpecZ

MaxCtlRows == 2       \* rows of each trace of the value family of Spec

MaxLookups == 2       \* cross-table lookups in one list

MaxChallenges == 2    \* challenges of one challenge set

MaxOpenings == 2      \* openings of one table in a received proof

SeqsFromTo(S, lo, hi) == UNION {[1..k -> S] : k \in lo..hi}

\* Column-major traces of two columns: column 0 holds values, column 1 a flag.
Traces(max_rows, values, flags) ==
    UNION {{<<c0, c1>> : c0 \in [1..n -> values], c1 \in [1..n -> flags]} : n \in 1..max_rows}

\* Not yet computed.
NoOutcome == [kind |-> "None", index |-> -1, iters |-> << >>, log |-> << >>]

\* No arguments, and no result yet.
NoArgs == [ctor |-> "None"]

NoColumn == [panic |-> FALSE, column |-> constant(0)]

NoEval == [row |-> -1, panic |-> FALSE, value |-> 0, reads |-> {}]

NoLookup == [panic |-> FALSE,
             lookup |-> CrossTableLookup(<< >>, TableWithColumns(0, << >>, << >>))]

NoChallenger == [transcript |-> << >>, position |-> 0]

NoCombine == [direct |-> 0, circuit |-> 0]

NoRead == [kind |-> "None", challenges |-> << >>, position |-> 0]

NoVars == [kind |-> "None", vars |-> << >>]

NoRow == CpuColumnsView(0, 0, 0, << >>)

\* The oracle has not run.
NoCheck == [kind |-> "None", ctl_index |-> -1, rows |-> {}, row |-> << >>]

\* ctl_extra_looking_products with every product equal to one.
OnesExtra(num_tables, n) == [t \in 1..num_tables |-> [c \in 1..n |-> 1]]

\* The table whose payload is column 0 and whose filter is column 1.
Filtered(table) == TableWithColumns(table, <<single(0)>>, <<single(1)>>)

\* The table whose payload is column 0, every row selected.
Unfiltered(table) == TableWithColumns(table, <<single(0)>>, << >>)

FixedChallenges ==
    << GrandProductChallenge(2, 3), GrandProductChallenge(3, 1),
       GrandProductChallenge(5, 2), GrandProductChallenge(1, 7) >>

ChallengePrefix(n) == [c \in 1..n |-> FixedChallenges[c]]

(* Lookup lists over two tables: the filtered rows of table 0 are {1, 2},
   all its rows {1, 1, 2, 2}; the rows of table 1 are {2, 1}, all selected. *)
OrderTraces == << << <<1, 2, 1, 2>>, <<1, 1, 0, 0>> >>, << <<2, 1>>, <<1, 1>> >> >>

OrderLooking ==
    { << >>, <<Filtered(0)>>, <<Filtered(1)>>, <<Filtered(0), Filtered(1)>>,
      <<Filtered(1), Filtered(1)>> }

OrderCtls ==
    {CrossTableLookup(looking, looked) :
        looking \in OrderLooking,
        looked \in {Filtered(0), Filtered(1), Unfiltered(0)}}

InitOrder ==
    /\ debug_assertions \in BOOLEAN
    /\ trace_poly_values = OrderTraces
    /\ cross_table_lookups \in SeqsFromTo(OrderCtls, 0, MaxLookups)
    /\ ctl_challenges \in {ChallengePrefix(n) : n \in 0..MaxChallenges}

(* Every pair of small traces, under a few lookups. *)
ValueCtls ==
    { CrossTableLookup(<<Filtered(0)>>, Filtered(1)),
      CrossTableLookup(<<Filtered(0)>>, Unfiltered(1)),
      CrossTableLookup(<<Filtered(0), Filtered(0)>>, Unfiltered(1)),
      CrossTableLookup(<<Unfiltered(0), Filtered(1)>>, Unfiltered(1)),
      CrossTableLookup(<<Filtered(1), Filtered(0)>>, Filtered(0)),
      CrossTableLookup(
          <<TableWithColumns(0, <<single(0), single_next_row(0)>>, <<single(1)>>)>>,
          TableWithColumns(1, <<single(0), single_next_row(0)>>, <<single(1)>>)) }

InitValues ==
    /\ debug_assertions = TRUE
    /\ trace_poly_values \in
          {<<t0, t1>> : t0 \in Traces(MaxCtlRows, {1, 2}, {0, 1}),
                        t1 \in Traces(MaxCtlRows, {1, 2}, {0, 1})}
    /\ cross_table_lookups \in {<<ctl>> : ctl \in ValueCtls}
    /\ ctl_challenges = ChallengePrefix(2)

(* The example: A = [5, 9, 5, 1] filtered by [1, 0, 1, 1] looks into
   B = [5, 5, 1] filtered by [1, 1, 1]; and B with its last value set to 2. *)
ExampleA == << <<5, 9, 5, 1>>, <<1, 0, 1, 1>> >>

ExampleB == << <<5, 5, 1>>, <<1, 1, 1>> >>

MutatedB == << <<5, 5, 2>>, <<1, 1, 1>> >>

ExampleValues == (0..5) \cup {Neg(v) : v \in 1..5}

InitExample ==
    /\ debug_assertions \in BOOLEAN
    /\ trace_poly_values \in {<<ExampleA, ExampleB>>, <<ExampleA, MutatedB>>}
    /\ cross_table_lookups = <<CrossTableLookup(<<Filtered(0)>>, Filtered(1))>>
    /\ ctl_challenges \in {<<GrandProductChallenge(b, g)>> :
                              b \in ExampleValues, g \in ExampleValues}

\* No Column or lookup has been constructed.
IdleBuildResults ==
    /\ column_result = NoColumn
    /\ eval_table_result = NoEval
    /\ lookup_result = NoLookup

\* No Column or lookup is being constructed.
IdleBuild ==
    /\ column_args = NoArgs
    /\ lookup_args = NoArgs
    /\ table_values = << >>
    /\ IdleBuildResults

\* No challenge is being derived, combined or encoded.
IdleChallenge ==
    /\ challenger = NoChallenger
    /\ challenger_target = NoChallenger
    /\ challenge_set = << >>
    /\ challenge_set_target = << >>
    /\ combine_terms = << >>
    /\ combine_result = NoCombine
    /\ buffer = << >>
    /\ from_buffer_result = NoRead

\* The oracle has not run and no Z was counted.
IdleOracle ==
    /\ extra_memory_looking_values = << >>
    /\ check_result = NoCheck
    /\ num_zs = << >>

\* Nothing was proved, verified or evaluated.
IdleResults ==
    /\ ctl_data_per_table = << >>
    /\ verify_result = NoOutcome
    /\ frame_row = -1
    /\ consumer = << >>
    /\ consumer_circuit = << >>

\* No opening was extracted from a proof.
IdleExtract ==
    /\ proofs = << >>
    /\ num_lookup_columns = << >>
    /\ ctl_vars_per_table = NoVars
    /\ ctl_vars_target = << >>

\* No CPU row is at hand.
IdleCpu == lv = NoRow

\* What no run has computed yet.
Idle ==
    /\ IdleResults
    /\ IdleOracle
    /\ IdleBuild
    /\ IdleChallenge
    /\ IdleExtract
    /\ IdleCpu

\* No trace, lookup or proof is at hand.
NoCtl ==
    /\ trace_poly_values = << >>
    /\ cross_table_lookups = << >>
    /\ ctl_challenges = << >>
    /\ ctl_zs_first = << >>
    /\ ctl_extra_looking_products = << >>
    /\ num_challenges = 0
    /\ IdleResults
    /\ IdleOracle

Init ==
    /\ pc = "start"
    /\ \/ InitOrder
       \/ InitValues
       \/ InitExample
    /\ num_challenges = Len(ctl_challenges)
    /\ ctl_extra_looking_products = OnesExtra(Len(trace_poly_values), num_challenges)
    /\ ctl_zs_first = << >>
    /\ Idle

(* The oracle and the Z count: the lookup lists and the traces of Spec, and
   traces whose flag column also holds the value 2. *)
OracleCtls ==
    ValueCtls \cup
    { CrossTableLookup(<<TableWithColumns(0, <<single(0)>>, <<single_next_row(1)>>)>>,
                       Filtered(1)) }

\* A trace of one selected row.
OneRow == << <<1>>, <<1>> >>

InitNonBinary ==
    /\ debug_assertions = TRUE
    /\ trace_poly_values \in
          {<<t0, OneRow>> : t0 \in Traces(MaxCtlRows, {1}, {0, 1, 2})}
          \cup {<<OneRow, t1>> : t1 \in Traces(MaxCtlRows, {1}, {0, 1, 2})}
    /\ cross_table_lookups \in {<<ctl>> : ctl \in OracleCtls}
    /\ ctl_challenges = ChallengePrefix(1)

\* Every small trace of table 0 against the traces of table 1 whose rows
\* are all selected.
InitOracleValues ==
    /\ debug_assertions = TRUE
    /\ trace_poly_values \in
          {<<t0, t1>> : t0 \in Traces(MaxCtlRows, {1, 2}, {0, 1}),
                        t1 \in Traces(MaxCtlRows, {1, 2}, {1})}
    /\ cross_table_lookups \in {<<ctl>> : ctl \in ValueCtls}
    /\ ctl_challenges = ChallengePrefix(1)

(* Extra looking rows.  There is one trace per Table, each of one selected
   row of value 1, but for the trace of Table::Memory, which may also hold a
   row of value 2 that no table looks up.  A lookup list is a short list, or
   a list long enough to have a lookup at position Table::Memory; each of
   its lookups looks from Cpu into Memory or from table 0 into table 1. *)
MemoryRows == << <<1, 2>>, <<1, 1>> >>

ExtraTraces(memory) == [t \in 1..(Memory + 1) |-> IF t = Memory + 1 THEN memory ELSE OneRow]

MemoryCtl == CrossTableLookup(<<Unfiltered(Cpu)>>, Unfiltered(Memory))

OtherCtl == CrossTableLookup(<<Unfiltered(0)>>, Unfiltered(1))

ExtraRows == { << >>, << <<2>> >>, << <<1>> >> }

InitExtra ==
    /\ debug_assertions = TRUE
    /\ trace_poly_values \in {ExtraTraces(OneRow), ExtraTraces(MemoryRows)}
    /\ cross_table_lookups \in
          UNION {[1..n -> {MemoryCtl, OtherCtl}] : n \in {1, 2, Memory + 1}}
    /\ extra_memory_looking_values \in ExtraRows
    /\ ctl_challenges = ChallengePrefix(1)

InitOracle ==
    /\ pc = "start"
    /\ \/ /\ InitOrder
          /\ debug_assertions = TRUE
          /\ Len(ctl_challenges) = MaxChallenges
          /\ extra_memory_looking_values = << >>
       \/ /\ InitOracleValues
          /\ extra_memory_looking_values = << >>
       \/ /\ InitNonBinary
          /\ extra_memory_looking_values = << >>
       \/ InitExtra
    /\ num_challenges = Len(ctl_challenges)
    /\ ctl_extra_looking_products = OnesExtra(Len(trace_poly_values), num_challenges)
    /\ ctl_zs_first = << >>
    /\ check_result = NoCheck
    /\ num_zs = << >>
    /\ IdleResults
    /\ IdleBuild
    /\ IdleChallenge
    /\ IdleExtract
    /\ IdleCpu

(* The construction of Columns and lookups, and eval_table on a trace of
   two columns whose rows differ, or that have no row, or of which only
   the first has no row. *)
MaxTerms == 2         \* terms of one linear combination

MaxLooking == 2       \* looking tables given to CrossTableLookup::new

BuildTerms == {<<0, 1>>, <<1, 2>>, <<0, 3>>}

BuildTermLists == SeqsFromTo(BuildTerms, 0, MaxTerms)

BuildColumnLists == SeqsFromTo({0, 1}, 0, MaxTerms)

ColumnArgs(ctor, c, cs, v, next_row_v, k) ==
    [ctor |-> ctor, c |-> c, cs |-> cs, v |-> v, next_row_v |-> next_row_v,
     constant |-> k]

BuildColumnArgs ==
    {ColumnArgs(ctor, c, << >>, << >>, << >>, 0) :
        ctor \in {"single", "single_next_row"}, c \in {0, 1}}
    \cup {ColumnArgs("constant", 0, << >>, << >>, << >>, k) : k \in {0, 5}}
    \cup {ColumnArgs("linear_combination_with_constant", 0, << >>, v, << >>, 5) :
             v \in BuildTermLists}
    \cup {ColumnArgs("linear_combination", 0, << >>, v, << >>, 0) :
             v \in BuildTermLists}
    \cup {ColumnArgs("linear_combination_and_next_row_with_constant",
                     0, << >>, v, next_row_v, 5) :
             v \in BuildTermLists, next_row_v \in BuildTermLists}
    \cup {ColumnArgs(ctor, 0, cs, << >>, << >>, 0) :
             ctor \in {"le_bits", "le_bytes", "sum"}, cs \in BuildColumnLists}

BuildTraces ==
    UNION {{ <<[i \in 1..n |-> i], [i \in 1..n |-> 2 + i]>>,
             <<[i \in 1..n |-> 1], [i \in 1..n |-> 9 - i]>> } : n \in 0..MaxRows}
    \cup { << << >>, <<7, 8>> >> }

WidthTables ==
    {TableWithColumns(t, columns, << >>) :
        t \in {0, 1},
        columns \in {<< >>, <<single(0)>>, <<single(0), single(1)>>}}

BuildLookupArgs ==
    {[ctor |-> "new", looking_tables |-> looking, looked_table |-> looked] :
        looking \in SeqsFromTo(WidthTables, 0, MaxLooking), looked \in WidthTables}

InitBuild ==
    /\ pc = "start"
    /\ debug_assertions \in BOOLEAN
    /\ \/ /\ column_args \in BuildColumnArgs
          /\ lookup_args = NoArgs
          /\ NoCtl
          /\ \E t \in BuildTraces : table_values = t
       \/ /\ column_args = NoArgs
          /\ lookup_args \in BuildLookupArgs
          /\ NoCtl
          /\ table_values = << >>
    /\ IdleBuildResults
    /\ IdleChallenge
    /\ IdleExtract
    /\ IdleCpu

(* Challenge derivation, combine and the encoding of a challenge set. *)
TranscriptValues == {1, 2, 3}

BufferTargets == {Wire(300, 2), VirtualTarget(5), VirtualTarget(70000)}

Transcripts(values) == [1..(2 * MaxChallenges) -> values]

CombineChallenges == {GrandProductChallenge(b, g) : b \in {2, 3}, g \in {0, 7}}

InitChallenge ==
    /\ pc = "start"
    /\ debug_assertions = FALSE
    /\ trace_poly_values = << >>
    /\ cross_table_lookups = << >>
    /\ ctl_zs_first = << >>
    /\ ctl_extra_looking_products = << >>
    /\ IdleResults
    /\ IdleOracle
    /\ IdleBuild
    /\ IdleExtract
    /\ IdleCpu
    /\ challenge_set = << >>
    /\ challenge_set_target = << >>
    /\ combine_result = NoCombine
    /\ buffer = << >>
    /\ from_buffer_result = NoRead
    /\ \/ /\ challenger \in {[transcript |-> t, position |-> 0] :
                                t \in Transcripts(TranscriptValues)}
          /\ challenger_target = NoChallenger
          /\ num_challenges \in 0..MaxChallenges
          /\ ctl_challenges = << >>
          /\ combine_terms = << >>
       \/ /\ challenger = NoChallenger
          /\ challenger_target \in {[transcript |-> t, position |-> 0] :
                                       t \in Transcripts(BufferTargets)}
          /\ num_challenges \in 0..MaxChallenges
          /\ ctl_challenges = << >>
          /\ combine_terms = << >>
       \/ /\ challenger = NoChallenger
          /\ challenger_target = NoChallenger
          /\ num_challenges = 1
          /\ ctl_challenges \in {<<c>> : c \in CombineChallenges}
          /\ combine_terms \in SeqsFromTo({0, 1, 5}, 0, MaxTerms + 1)

(* One table, one lookup with that table as the looked table, one challenge. *)
PayloadColumns ==
    { <<single(0)>>,
      <<single(0), single_next_row(0)>>,
      <<linear_combination_and_next_row_with_constant(
            << <<0, 2>> >>, << <<1, 1>> >>, 1, TRUE).column>> }

FilterColumns ==
    { << >>,
      <<single(1)>>,
      <<single_next_row(1)>>,
      <<Column(<< <<1, Neg(1)>> >>, << >>, 1)>> }

InitZ ==
    /\ pc = "start"
    /\ debug_assertions = FALSE
    /\ trace_poly_values \in {<<t>> : t \in Traces(MaxRows, {1, 2}, {0, 1, 2})}
    /\ cross_table_lookups \in
          {<<CrossTableLookup(<< >>, TableWithColumns(0, columns, filter_column))>> :
              columns \in PayloadColumns, filter_column \in FilterColumns}
    /\ ctl_challenges \in {<<FixedChallenges[1]>>, <<FixedChallenges[2]>>}
    /\ num_challenges = 1
    /\ ctl_extra_looking_products = OnesExtra(1, 1)
    /\ ctl_zs_first = << >>
    /\ Idle

(* A received proof: any opening lists, for lookups that name only tables. *)
VerifyCtls ==
    { CrossTableLookup(<<Unfiltered(0)>>, Unfiltered(1)),
      CrossTableLookup(<<Unfiltered(0), Unfiltered(0)>>, Unfiltered(1)),
      CrossTableLookup(<<Unfiltered(1), Unfiltered(0)>>, Unfiltered(0)) }

ExtraProducts(n) ==
    { OnesExtra(2, n),
      [t \in 1..2 |-> [c \in 1..n |-> 1 + ((t + c) % 2)]],
      [t \in 1..2 |-> [c \in 1..n |-> t]] }

InitVerify ==
    /\ pc = "proof"
    /\ debug_assertions \in BOOLEAN
    /\ trace_poly_values = << >>
    /\ cross_table_lookups \in SeqsFromTo(VerifyCtls, 0, MaxLookups)
    /\ ctl_challenges = << >>
    /\ num_challenges \in 1..MaxChallenges
    /\ ctl_extra_looking_products \in ExtraProducts(num_challenges)
    /\ ctl_zs_first \in {<<z0, z1>> : z0 \in SeqsFromTo({1, 2}, 0, MaxOpenings),
                                     z1 \in SeqsFromTo({1, 2}, 0, MaxOpenings)}
    /\ Idle

(* The openings of two proofs, for lookups in which a table is a looking and
   the looked table of one lookup, or twice a looking table.  The opening at
   each position has a value of its own.  A proof holds as many openings as
   the lookups need after the skipped ones, or one more or one less. *)
MaxSkip == 1          \* auxiliary openings to skip before the CTL openings

ExtractCtls ==
    { CrossTableLookup(<<Filtered(0)>>, Unfiltered(1)),
      CrossTableLookup(<<Filtered(1), Filtered(0)>>, Unfiltered(0)),
      CrossTableLookup(<<Unfiltered(1), Filtered(1)>>, Filtered(0)) }

Opening(t, k) == 100 * (t + 1) + k

OpeningNext(t, k) == 100 * (t + 1) + 50 + k

OpeningLengths(need) ==
    {<<need, need>>, <<need + 1, need + 1>>, <<need + 1, need>>}
        \cup (IF need > 0 THEN {<<need - 1, need - 1>>} ELSE {})

ProofsOf(t, need) ==
    {[auxiliary_polys      |-> [k \in 1..n[1] |-> Opening(t, k)],
      auxiliary_polys_next |-> [k \in 1..n[2] |-> OpeningNext(t, k)]] :
        n \in OpeningLengths(need)}

InitExtract ==
    /\ pc = "start"
    /\ debug_assertions = FALSE
    /\ trace_poly_values = << >>
    /\ cross_table_lookups \in SeqsFromTo(ExtractCtls, 0, MaxLookups)
    /\ ctl_challenges \in {ChallengePrefix(n) : n \in 0..MaxChallenges}
    /\ num_challenges = Len(ctl_challenges)
    /\ ctl_zs_first = << >>
    /\ ctl_extra_looking_products = << >>
    /\ num_lookup_columns \in [1..2 -> 0..MaxSkip]
    /\ proofs \in
          {<<p0, p1>> :
              p0 \in ProofsOf(0, num_lookup_columns[1]
                                    + num_ctl_zs(cross_table_lookups, 0, num_challenges)),
              p1 \in ProofsOf(1, num_lookup_columns[2]
                                    + num_ctl_zs(cross_table_lookups, 1, num_challenges))}
    /\ ctl_vars_per_table = NoVars
    /\ ctl_vars_target = [t \in 1..2 |-> NoVars]
    /\ IdleResults
    /\ IdleOracle
    /\ IdleBuild
    /\ IdleChallenge
    /\ IdleCpu

(* CPU rows: the kernel flag may be other than 0 and 1, as may the used
   flag of each memory channel. *)
FlagValues == {0, 1, 2}

ContextValues == {0, 1, 5}

CodeContextValues == {0, 1, 5, Neg(1)}

CpuRows ==
    {CpuColumnsView(k, context, code_context,
                    [c \in 1..NUM_GP_CHANNELS |-> MemoryChannelView(used[c])]) :
        k \in FlagValues, context \in ContextValues,
        code_context \in CodeContextValues,
        used \in [1..NUM_GP_CHANNELS -> FlagValues]}

InitMembus ==
    /\ pc = "start"
    /\ debug_assertions = FALSE
    /\ NoCtl
    /\ IdleBuild
    /\ IdleChallenge
    /\ IdleExtract
    /\ lv \in CpuRows

(***************************************************************************)
(* Actions.                                                                *)
(***************************************************************************)
\* The prover computes the CTL data of all tables.
Prove ==
    /\ pc = "start"
    /\ LET r == cross_table_lookup_data(trace_poly_values, cross_table_lookups,
                                        ctl_challenges)
       IN  /\ ctl_data_per_table' = r.data
           /\ pc' = IF r.panic THEN "aborted" ELSE "proved"
    /\ UNCHANGED <<extract_vars, cpu_vars,
                   debug_assertions, trace_poly_values, cross_table_lookups,
                   ctl_challenges, ctl_zs_first, ctl_extra_looking_products,
                   num_challenges, verify_result, frame_row, consumer,
                   consumer_circuit, oracle_vars, build_vars,
                   challenge_vars>>

\* The proof carries, per table, Z[0] of each of its Z polynomials, in order.
Open ==
    /\ pc = "proved"
    /\ ctl_zs_first' = [t \in 1..Len(ctl_data_per_table) |->
                          [k \in 1..Len(ctl_data_per_table[t]) |->
                              ctl_data_per_table[t][k].z[1]]]
    /\ pc' = "proof"
    /\ UNCHANGED <<extract_vars, cpu_vars,
                   debug_assertions, trace_poly_values, cross_table_lookups,
                   ctl_challenges, ctl_data_per_table, ctl_extra_looking_products,
                   num_challenges, verify_result, frame_row, consumer,
                   consumer_circuit, oracle_vars, build_vars,
                   challenge_vars>>

\* The verifier checks the cross-table lookups of a proof.
VerifyProof ==
    /\ pc = "proof"
    /\ verify_result' = verify_cross_table_lookups(cross_table_lookups, ctl_zs_first,
                            ctl_extra_looking_products, num_challenges,
                            debug_assertions)
    /\ pc' = "verified"
    /\ UNCHANGED <<extract_vars, cpu_vars,
                   debug_assertions, trace_poly_values, cross_table_lookups,
                   ctl_challenges, ctl_data_per_table, ctl_zs_first,
                   ctl_extra_looking_products, num_challenges, frame_row, consumer,
                   consumer_circuit, oracle_vars, build_vars,
                   challenge_vars>>

\* The CtlCheckVars of table t on the frame (row, cyclic successor of row).
FrameCtlVars(t, row) ==
    LET n == Degree(trace_poly_values[t + 1])
    IN  [k \in 1..Len(ctl_data_per_table[t + 1]) |->
            LET d == ctl_data_per_table[t + 1][k]
            IN  CtlCheckVars(d.z[row + 1], d.z[((row + 1) % n) + 1], d.challenge,
                             d.columns, d.filter_column)]

FrameLocal(t, row) == RowValues(trace_poly_values[t + 1], row)

FrameNext(t, row) ==
    RowValues(trace_poly_values[t + 1], (row + 1) % Degree(trace_poly_values[t + 1]))

\* The constraints of table 0 are evaluated on one frame of its trace.
EvalChecks ==
    /\ pc = "proved"
    /\ \E row \in 0..(Degree(trace_poly_values[1]) - 1) :
          /\ frame_row' = row
          /\ consumer' = eval_cross_table_lookup_checks(
                            FrameLocal(0, row), FrameNext(0, row), FrameCtlVars(0, row))
    /\ pc' = "evaluated"
    /\ UNCHANGED <<extract_vars, cpu_vars,
                   debug_assertions, trace_poly_values, cross_table_lookups,
                   ctl_challenges, ctl_data_per_table, ctl_zs_first,
                   ctl_extra_looking_products, num_challenges, verify_result,
                   consumer_circuit, oracle_vars, build_vars,
                   challenge_vars>>

\* The circuit version is evaluated on the same frame.
EvalChecksCircuit ==
    /\ pc = "evaluated"
    /\ consumer_circuit' = eval_cross_table_lookup_checks_circuit(
                              FrameLocal(0, frame_row), FrameNext(0, frame_row),
                              FrameCtlVars(0, frame_row))
    /\ pc' = "evaluated_circuit"
    /\ UNCHANGED <<extract_vars, cpu_vars,
                   debug_assertions, trace_poly_values, cross_table_lookups,
                   ctl_challenges, ctl_data_per_table, ctl_zs_first,
                   ctl_extra_looking_products, num_challenges, verify_result,
                   frame_row, consumer, oracle_vars, build_vars,
                   challenge_vars>>

\* The oracle checks the traces against the lookups.
CheckCtls ==
    /\ pc = "start"
    /\ check_result = NoCheck
    /\ LET r == check_ctls(trace_poly_values, cross_table_lookups,
                           extra_memory_looking_values)
       IN  \E row \in (IF r.rows = {} THEN {<< >>} ELSE r.rows) :
              check_result' = [kind |-> r.kind, ctl_index |-> r.ctl_index,
                               rows |-> r.rows, row |-> row]
    /\ UNCHANGED <<extract_vars, cpu_vars,
                   pc, debug_assertions, trace_poly_values, cross_table_lookups,
                   ctl_challenges, ctl_data_per_table, ctl_zs_first,
                   ctl_extra_looking_products, num_challenges, verify_result,
                   frame_row, consumer, consumer_circuit,
                   extra_memory_looking_values, num_zs, build_vars,
                   challenge_vars>>

\* The number of Z polynomials of every table is computed.
NumCtlZs ==
    /\ pc = "proved"
    /\ num_zs' = [t \in 1..Len(trace_poly_values) |->
                     num_ctl_zs(cross_table_lookups, t - 1, num_challenges)]
    /\ pc' = "counted"
    /\ UNCHANGED <<extract_vars, cpu_vars,
                   debug_assertions, trace_poly_values, cross_table_lookups,
                   ctl_challenges, ctl_data_per_table, ctl_zs_first,
                   ctl_extra_looking_products, num_challenges, verify_result,
                   frame_row, consumer, consumer_circuit,
                   extra_memory_looking_values, check_result, build_vars,
                   challenge_vars>>

\* The Column constructor named by the arguments.
new_column(args, debug) ==
    CASE args.ctor = "single" -> Constructed(single(args.c))
      [] args.ctor = "single_next_row" -> Constructed(single_next_row(args.c))
      [] args.ctor = "constant" -> Constructed(constant(args.constant))
      [] args.ctor = "linear_combination_with_constant" ->
            linear_combination_with_constant(args.v, args.constant, debug)
      [] args.ctor = "linear_combination_and_next_row_with_constant" ->
            linear_combination_and_next_row_with_constant(
                args.v, args.next_row_v, args.constant, debug)
      [] args.ctor = "linear_combination" -> linear_combination(args.v, debug)
      [] args.ctor = "le_bits" -> le_bits(args.cs, debug)
      [] args.ctor = "le_bytes" -> le_bytes(args.cs, debug)
      [] args.ctor = "sum" -> sum(args.cs, debug)

\* A Column is constructed.
NewColumn ==
    /\ pc = "start"
    /\ column_args.ctor # "None"
    /\ column_result' = new_column(column_args, debug_assertions)
    /\ pc' = IF column_result'.panic THEN "aborted" ELSE "column"
    /\ UNCHANGED <<extract_vars, cpu_vars,
                   debug_assertions, trace_poly_values, cross_table_lookups,
                   ctl_challenges, ctl_data_per_table, ctl_zs_first,
                   ctl_extra_looking_products, num_challenges, verify_result,
                   frame_row, consumer, consumer_circuit, oracle_vars,
                   column_args, table_values, eval_table_result, lookup_args,
                   lookup_result, challenge_vars>>

\* The rows eval_table is called on: every row of the table, and the first
\* row index when the table has no row.
EvalRows(table) == IF Degree(table) = 0 THEN {0} ELSE 0..(Degree(table) - 1)

\* The constructed Column is evaluated on one row of the table, in a build
\* with or without overflow checks.
EvalTable ==
    /\ pc = "column"
    /\ \E row \in EvalRows(table_values), overflow_checks \in BOOLEAN :
          eval_table_result' =
              [row   |-> row,
               panic |-> eval_table(column_result.column, table_values, row,
                                    overflow_checks).panic,
               value |-> eval_table(column_result.column, table_values, row,
                                    overflow_checks).value,
               reads |-> eval_table_reads(column_result.column, table_values, row,
                                          overflow_checks)]
    /\ pc' = IF eval_table_result'.panic THEN "aborted" ELSE "evaluated_table"
    /\ UNCHANGED <<extract_vars, cpu_vars,
                   debug_assertions, trace_poly_values, cross_table_lookups,
                   ctl_challenges, ctl_data_per_table, ctl_zs_first,
                   ctl_extra_looking_products, num_challenges, verify_result,
                   frame_row, consumer, consumer_circuit, oracle_vars,
                   column_args, column_result, table_values, lookup_args,
                   lookup_result, challenge_vars>>

\* A CrossTableLookup is constructed.
NewCrossTableLookup ==
    /\ pc = "start"
    /\ lookup_args.ctor # "None"
    /\ lookup_result' = CrossTableLookup_new(lookup_args.looking_tables,
                                             lookup_args.looked_table)
    /\ pc' = IF lookup_result'.panic THEN "aborted" ELSE "lookup"
    /\ UNCHANGED <<extract_vars, cpu_vars,
                   debug_assertions, trace_poly_values, cross_table_lookups,
                   ctl_challenges, ctl_data_per_table, ctl_zs_first,
                   ctl_extra_looking_products, num_challenges, verify_result,
                   frame_row, consumer, consumer_circuit, oracle_vars,
                   column_args, column_result, table_values, eval_table_result,
                   lookup_args, challenge_vars>>

\* The challenge set is drawn from the transcript.
GetChallengeSet ==
    /\ pc = "start"
    /\ challenger.transcript # << >>
    /\ LET r == get_grand_product_challenge_set(challenger, num_challenges)
       IN  /\ challenge_set' = r.challenges
           /\ challenger' = r.challenger
    /\ pc' = "drawn"
    /\ UNCHANGED <<extract_vars, cpu_vars,
                   debug_assertions, trace_poly_values, cross_table_lookups,
                   ctl_challenges, ctl_data_per_table, ctl_zs_first,
                   ctl_extra_looking_products, num_challenges, verify_result,
                   frame_row, consumer, consumer_circuit, oracle_vars, build_vars,
                   challenger_target, challenge_set_target, combine_terms,
                   combine_result, buffer, from_buffer_result>>

\* The challenge set of targets is drawn from the recursive transcript.
GetChallengeSetTarget ==
    /\ pc = "start"
    /\ challenger_target.transcript # << >>
    /\ LET r == get_grand_product_challenge_set_target(challenger_target,
                                                       num_challenges)
       IN  /\ challenge_set_target' = r.challenges
           /\ challenger_target' = r.challenger
    /\ pc' = "drawn_target"
    /\ UNCHANGED <<extract_vars, cpu_vars,
                   debug_assertions, trace_poly_values, cross_table_lookups,
                   ctl_challenges, ctl_data_per_table, ctl_zs_first,
                   ctl_extra_looking_products, num_challenges, verify_result,
                   frame_row, consumer, consumer_circuit, oracle_vars, build_vars,
                   challenger, challenge_set, combine_terms, combine_result,
                   buffer, from_buffer_result>>

\* The terms are combined, directly and in the circuit.
CombineTerms ==
    /\ pc = "start"
    /\ ctl_challenges # << >>
    /\ combine_result' = [direct  |-> combine(ctl_challenges[1], combine_terms),
                          circuit |-> combine_circuit(ctl_challenges[1], combine_terms)]
    /\ pc' = "combined"
    /\ UNCHANGED <<extract_vars, cpu_vars,
                   debug_assertions, trace_poly_values, cross_table_lookups,
                   ctl_challenges, ctl_data_per_table, ctl_zs_first,
                   ctl_extra_looking_products, num_challenges, verify_result,
                   frame_row, consumer, consumer_circuit, oracle_vars, build_vars,
                   challenger, challenger_target, challenge_set,
                   challenge_set_target, combine_terms, buffer,
                   from_buffer_result>>

\* The challenge set of targets is written to an empty buffer.
ToBuffer ==
    /\ pc = "drawn_target"
    /\ buffer' = to_buffer(challenge_set_target, << >>)
    /\ pc' = "written"
    /\ UNCHANGED <<extract_vars, cpu_vars,
                   debug_assertions, trace_poly_values, cross_table_lookups,
                   ctl_challenges, ctl_data_per_table, ctl_zs_first,
                   ctl_extra_looking_products, num_challenges, verify_result,
                   frame_row, consumer, consumer_circuit, oracle_vars, build_vars,
                   challenger, challenger_target, challenge_set,
                   challenge_set_target, combine_terms, combine_result,
                   from_buffer_result>>

\* Declared counts far above what any payload holds: 2^20, 2^28 and
\* 2^31 - 1, and a count of 2^31 or more.
LargeCounts == {1048576, 268435456, 2147483647, Huge}

\* The payloads that differ from the written one: cut short, followed by
\* more data, or declaring another count.
Tampered(bytes) ==
    {SubSeq(bytes, 1, k) : k \in 0..(Len(bytes) - 1)}
    \cup {write_target(bytes, t) : t \in BufferTargets}
    \cup {bytes \o <<7>>}
    \cup {to_le_bytes(n) \o SubSeq(bytes, 9, Len(bytes)) :
             n \in ((0..(MaxChallenges + 1)) \cup LargeCounts) \ {from_le_bytes(bytes)}}

\* Another payload takes the place of the written one.
Tamper ==
    /\ pc = "written"
    /\ buffer' \in Tampered(buffer)
    /\ pc' = "tampered"
    /\ UNCHANGED <<extract_vars, cpu_vars,
                   debug_assertions, trace_poly_values, cross_table_lookups,
                   ctl_challenges, ctl_data_per_table, ctl_zs_first,
                   ctl_extra_looking_products, num_challenges, verify_result,
                   frame_row, consumer, consumer_circuit, oracle_vars, build_vars,
                   challenger, challenger_target, challenge_set,
                   challenge_set_target, combine_terms, combine_result,
                   from_buffer_result>>

\* The buffer is decoded from its start.
FromBuffer ==
    /\ pc \in {"written", "tampered"}
    /\ \E allocated \in BOOLEAN :
          from_buffer_result' = from_buffer(buffer, 0, allocated)
    /\ pc' = IF pc = "written" THEN "read" ELSE "read_tampered"
    /\ UNCHANGED <<extract_vars, cpu_vars,
                   debug_assertions, trace_poly_values, cross_table_lookups,
                   ctl_challenges, ctl_data_per_table, ctl_zs_first,
                   ctl_extra_looking_products, num_challenges, verify_result,
                   frame_row, consumer, consumer_circuit, oracle_vars, build_vars,
                   challenger, challenger_target, challenge_set,
                   challenge_set_target, combine_terms, combine_result, buffer>>

\* The CtlCheckVars of every table are extracted from the proofs.
FromProofs ==
    /\ pc = "start"
    /\ proofs # << >>
    /\ ctl_vars_per_table = NoVars
    /\ ctl_vars_per_table' = from_proofs(proofs, cross_table_lookups, ctl_challenges,
                                         num_lookup_columns)
    /\ UNCHANGED <<pc, debug_assertions, trace_poly_values, cross_table_lookups,
                   ctl_challenges, ctl_data_per_table, ctl_zs_first,
                   ctl_extra_looking_products, num_challenges, verify_result,
                   frame_row, consumer, consumer_circuit, oracle_vars, build_vars,
                   challenge_vars, proofs, num_lookup_columns, ctl_vars_target,
                   cpu_vars>>

\* The CtlCheckVarsTarget of one table are extracted from its proof.
FromProof ==
    /\ pc = "start"
    /\ \E table \in 0..(Len(proofs) - 1) :
          /\ ctl_vars_target[table + 1] = NoVars
          /\ ctl_vars_target' =
                [ctl_vars_target EXCEPT ![table + 1] =
                    from_proof(table, proofs[table + 1], cross_table_lookups,
                               ctl_challenges, num_lookup_columns[table + 1])]
    /\ UNCHANGED <<pc, debug_assertions, trace_poly_values, cross_table_lookups,
                   ctl_challenges, ctl_data_per_table, ctl_zs_first,
                   ctl_extra_looking_products, num_challenges, verify_result,
                   frame_row, consumer, consumer_circuit, oracle_vars, build_vars,
                   challenge_vars, proofs, num_lookup_columns, ctl_vars_per_table,
                   cpu_vars>>

\* The membus constraints of the row are given to the consumer.
EvalPacked ==
    /\ pc = "start"
    /\ lv # NoRow
    /\ consumer = << >>
    /\ consumer' = eval_packed(lv)
    /\ UNCHANGED <<pc, debug_assertions, trace_poly_values, cross_table_lookups,
                   ctl_challenges, ctl_data_per_table, ctl_zs_first,
                   ctl_extra_looking_products, num_challenges, verify_result,
                   frame_row, consumer_circuit, oracle_vars, build_vars,
                   challenge_vars, extract_vars, cpu_vars>>

\* The membus constraints of the row are given to the recursive consumer.
EvalExtCircuit ==
    /\ pc = "start"
    /\ lv # NoRow
    /\ consumer_circuit = << >>
    /\ consumer_circuit' = eval_ext_circuit(lv)
    /\ UNCHANGED <<pc, debug_assertions, trace_poly_values, cross_table_lookups,
                   ctl_challenges, ctl_data_per_table, ctl_zs_first,
                   ctl_extra_looking_products, num_challenges, verify_result,
                   frame_row, consumer, oracle_vars, build_vars,
                   challenge_vars, extract_vars, cpu_vars>>

Next == Prove \/ Open \/ VerifyProof

Spec == Init /\ [][Next]_vars

NextZ == Prove \/ EvalChecks \/ EvalChecksCircuit

SpecZ == InitZ /\ [][NextZ]_vars

NextVerify == VerifyProof

SpecVerify == InitVerify /\ [][NextVerify]_vars

NextOracle == CheckCtls \/ Prove \/ NumCtlZs

SpecOracle == InitOracle /\ [][NextOracle]_vars

NextBuild == NewColumn \/ EvalTable \/ NewCrossTableLookup

SpecBuild == InitBuild /\ [][NextBuild]_vars

NextExtract == FromProofs \/ FromProof

SpecExtract == InitExtract /\ [][NextExtract]_vars

NextMembus == EvalPacked \/ EvalExtCircuit

SpecMembus == InitMembus /\ [][NextMembus]_vars

NextChallenge ==
    \/ GetChallengeSet
    \/ GetChallengeSetTarget
    \/ CombineTerms
    \/ ToBuffer
    \/ Tamper
    \/ FromBuffer

SpecChallenge == InitChallenge /\ [][NextChallenge]_vars

(***************************************************************************)
(* Properties of the Z sequences (SpecZ).                                  *)
(***************************************************************************)
\* Every CtlZData stored for any table, with the trace of its table.
ZEntries ==
    UNION {{[d |-> ctl_data_per_table[t][k], trace |-> trace_poly_values[t]] :
               k \in 1..Len(ctl_data_per_table[t])} :
           t \in 1..Len(ctl_data_per_table)}

\* filter(i): the filter column at row i of the trace, one when there is none.
FilterAt(d, trace, i) ==
    IF d.filter_column = << >> THEN 1
    ELSE eval_table(d.filter_column[1], trace, i, FALSE).value

\* payload(i): the payload columns at row i of the trace.
PayloadAt(d, trace, i) ==
    [k \in 1..Len(d.columns) |-> eval_table(d.columns[k], trace, i, FALSE).value]

\* Z[i]
Z(d, i) == d.z[i + 1]

LastRow(trace) == Degree(trace) - 1

\* C2 as stated: the last element of every Z sequence returned by
\* partial_products is the multiplicative identity 1.
C2_LastIsOne ==
    pc = "proved" => \A e \in ZEntries : Z(e.d, LastRow(e.trace)) = 1

\* C2 amended: the last element of every Z sequence is combine(payload(last))
\* when the filter is 1 on the last row, and 1 when the filter is 0 there.
C2_LastIsSelectOfLastRow ==
    pc = "proved" =>
        \A e \in ZEntries :
            Z(e.d, LastRow(e.trace)) =
                IF FilterAt(e.d, e.trace, LastRow(e.trace)) = 1
                THEN combine(e.d.challenge, PayloadAt(e.d, e.trace, LastRow(e.trace)))
                ELSE 1

\* A Z sequence of several rows was built whose last row is selected by a
\* filter column and whose last element is not 1.
C2_Witness ==
    /\ pc = "proved"
    /\ \E e \in ZEntries :
          /\ Degree(e.trace) >= 2
          /\ e.d.filter_column # << >>
          /\ FilterAt(e.d, e.trace, LastRow(e.trace)) = 1
          /\ Z(e.d, LastRow(e.trace)) # 1

\* C3: for every row i before the last, Z[i] = Z[i+1] * combine(payload(i))
\* when filter(i) = 1 and Z[i] = Z[i+1] when filter(i) = 0.
C3_Recurrence ==
    pc = "proved" =>
        \A e \in ZEntries :
            \A i \in 0..(LastRow(e.trace) - 1) :
                /\ FilterAt(e.d, e.trace, i) = 1 =>
                      Z(e.d, i) = Mul(Z(e.d, i + 1),
                                      combine(e.d.challenge, PayloadAt(e.d, e.trace, i)))
                /\ FilterAt(e.d, e.trace, i) = 0 => Z(e.d, i) = Z(e.d, i + 1)

\* A Z sequence of three rows with a selected and an unselected row before
\* the last, and a product that changes at the selected row.
C3_Witness ==
    /\ pc = "proved"
    /\ \E e \in ZEntries :
          /\ Degree(e.trace) >= 3
          /\ \E i, j \in 0..(LastRow(e.trace) - 1) :
                /\ FilterAt(e.d, e.trace, i) = 1
                /\ FilterAt(e.d, e.trace, j) = 0
                /\ Z(e.d, i) # Z(e.d, i + 1)
                /\ Z(e.d, j) = Z(e.d, j + 1)

\* The product of combine(payload(i)) over the selected rows from row i on.
RECURSIVE SelectedProduct(_, _, _)
SelectedProduct(d, trace, i) ==
    IF i > LastRow(trace) THEN 1
    ELSE Mul(IF d.filter_column = << >> \/ FilterAt(d, trace, i) = 1
             THEN combine(d.challenge, PayloadAt(d, trace, i))
             ELSE 1,
             SelectedProduct(d, trace, i + 1))

\* C4: Z[0] is the product of combine(payload(i)) over exactly the rows
\* whose filter is 1, the last row included; it is 1 when no row is
\* selected; without a filter column every row is selected.
C4_FirstIsFullProduct ==
    pc = "proved" =>
        \A e \in ZEntries :
            /\ Z(e.d, 0) = SelectedProduct(e.d, e.trace, 0)
            /\ (\A i \in 0..LastRow(e.trace) : FilterAt(e.d, e.trace, i) = 0)
                  => Z(e.d, 0) = 1

\* A filtered Z sequence whose last row is selected, with an unselected row,
\* and whose first element differs from the last.
C4_Witness ==
    /\ pc = "proved"
    /\ \E e \in ZEntries :
          /\ e.d.filter_column # << >>
          /\ FilterAt(e.d, e.trace, LastRow(e.trace)) = 1
          /\ \E i, j \in 0..(LastRow(e.trace) - 1) :
                /\ FilterAt(e.d, e.trace, i) = 0
                /\ FilterAt(e.d, e.trace, j) = 1
          /\ Z(e.d, 0) # Z(e.d, LastRow(e.trace))

(***************************************************************************)
(* Properties of the constraints on the built Z sequences (SpecZ).         *)
(***************************************************************************)
\* The constraints of the k-th CtlZData of table 0: boundary, then transition.
BoundaryResidual(cons, k) == cons[2 * k - 1].value

TransitionResidual(cons, k) == cons[2 * k].value

HasNextRowTerms(column) == column.next_row_linear_combination # << >>

FrameIsLast == frame_row = LastRow(trace_poly_values[1])

\* C6 as stated: on the frame (row i, cyclic successor of i) of the trace
\* the boundary residual is zero on the last row and the transition
\* residual is zero on every other row, for every payload and filter
\* Column, next-row terms included.
C6_ResidualsZero ==
    pc = "evaluated" =>
        \A k \in 1..Len(ctl_data_per_table[1]) :
            IF FrameIsLast
            THEN BoundaryResidual(consumer, k) = 0
            ELSE TransitionResidual(consumer, k) = 0

\* C6 amended: the transition residual is zero on every non-final row for
\* every payload and filter Column, next-row terms included; the boundary
\* residual is zero on the last row when the filter Column has no next-row
\* terms and either the filter is 0 on the last row or no payload Column
\* has next-row terms.
C6_ResidualsZeroWithoutNextRowAtLast ==
    pc = "evaluated" =>
        \A k \in 1..Len(ctl_data_per_table[1]) :
            LET d == ctl_data_per_table[1][k]
            IN  IF FrameIsLast
                THEN (/\ \A f \in 1..Len(d.filter_column) :
                            ~HasNextRowTerms(d.filter_column[f])
                      /\ \/ FilterAt(d, trace_poly_values[1], frame_row) = 0
                         \/ \A c \in 1..Len(d.columns) : ~HasNextRowTerms(d.columns[c]))
                     => BoundaryResidual(consumer, k) = 0
                ELSE TransitionResidual(consumer, k) = 0

\* The constraints were evaluated on the last row of a trace of several
\* rows, the last row selected by a filter column, the Z sequence not
\* constant; and the boundary residual is zero.
C6_Witness ==
    /\ pc = "evaluated"
    /\ FrameIsLast
    /\ frame_row >= 1
    /\ \E k \in 1..Len(ctl_data_per_table[1]) :
          LET d == ctl_data_per_table[1][k]
          IN  /\ d.filter_column # << >>
              /\ ~HasNextRowTerms(d.filter_column[1])
              /\ \A c \in 1..Len(d.columns) : ~HasNextRowTerms(d.columns[c])
              /\ FilterAt(d, trace_poly_values[1], frame_row) = 1
              /\ Z(d, 0) # Z(d, frame_row)
              /\ BoundaryResidual(consumer, k) = 0

\* C7: the circuit version emits the same two constraints as
\* eval_cross_table_lookup_checks, for every payload Column and every
\* filter Column, next-row terms included: on the same frame and the same
\* openings both give the same values.
C7_CircuitSameConstraints ==
    pc = "evaluated_circuit" => consumer_circuit = consumer

(***************************************************************************)
(* Properties of proving followed by verification (Spec).                  *)
(***************************************************************************)
\* The rows of its table a TableWithColumns selects.
SelectedRows(twc) ==
    {i \in 0..LastRow(trace_poly_values[twc.table + 1]) :
        FilterAt(twc, trace_poly_values[twc.table + 1], i) = 1}

\* How many selected rows of a TableWithColumns have payload row r.
CountOf(twc, r) ==
    Cardinality({i \in SelectedRows(twc) :
                    PayloadAt(twc, trace_poly_values[twc.table + 1], i) = r})

RECURSIVE LookingCountOf(_, _)
LookingCountOf(looking_tables, r) ==
    IF looking_tables = << >> THEN 0
    ELSE CountOf(Head(looking_tables), r) + LookingCountOf(Tail(looking_tables), r)

PayloadRowsOf(twc) ==
    {PayloadAt(twc, trace_poly_values[twc.table + 1], i) : i \in SelectedRows(twc)}

\* The filtered payload rows of the looking tables and of the looked table
\* are the same multiset.
MultisetsEqual(ctl) ==
    \A r \in PayloadRowsOf(ctl.looked_table)
               \cup UNION {PayloadRowsOf(ctl.looking_tables[k]) :
                              k \in 1..Len(ctl.looking_tables)} :
        LookingCountOf(ctl.looking_tables, r) = CountOf(ctl.looked_table, r)

AllMultisetsEqual ==
    \A l \in 1..Len(cross_table_lookups) : MultisetsEqual(cross_table_lookups[l])

\* C1: when every filter is binary, every lookup's looking and looked
\* multisets of filtered payload rows are equal and the extra products are
\* one, verify_cross_table_lookups on the first elements of the Z
\* sequences of cross_table_lookup_data, in production order, returns Ok.
C1_HonestProofVerifies ==
    (pc = "verified" /\ AllMultisetsEqual) => verify_result.kind = "Ok"

\* A proof of two or more lookups was verified, for two challenges, one
\* lookup having two looking tables with selected rows, all multisets equal.
C1_Witness ==
    /\ pc = "verified"
    /\ AllMultisetsEqual
    /\ verify_result.kind = "Ok"
    /\ Len(cross_table_lookups) >= 2
    /\ Len(ctl_challenges) >= 2
    /\ \E l \in 1..Len(cross_table_lookups) :
          /\ Len(cross_table_lookups[l].looking_tables) >= 2
          /\ \A k \in 1..Len(cross_table_lookups[l].looking_tables) :
                SelectedRows(cross_table_lookups[l].looking_tables[k]) # {}

IsExample == trace_poly_values = <<ExampleA, ExampleB>>

IsMutatedExample == trace_poly_values = <<ExampleA, MutatedB>>

\* C5 as stated: in the example verification succeeds for any challenge,
\* and with B's last value set to 2 it fails for any challenge.
C5_ExampleForAnyChallenge ==
    pc = "verified" =>
        /\ IsExample => verify_result.kind = "Ok"
        /\ IsMutatedExample => verify_result.kind # "Ok"

\* C5 amended: in the example verification succeeds for any challenge; with
\* B's last value set to 2 it fails for every challenge whose gamma is not
\* -5, and succeeds when gamma = -5 (both products are then zero).
C5_ExampleUnlessGammaCancels ==
    pc = "verified" =>
        /\ IsExample => verify_result.kind = "Ok"
        /\ (IsMutatedExample /\ ctl_challenges[1].gamma # Neg(5)) =>
              (verify_result.kind = "Err" /\ verify_result.index = 0)
        /\ (IsMutatedExample /\ ctl_challenges[1].gamma = Neg(5)) =>
              verify_result.kind = "Ok"

\* The mutated example was verified and rejected.
C5_Witness ==
    /\ pc = "verified"
    /\ IsMutatedExample
    /\ ctl_challenges[1].gamma # 0
    /\ verify_result.kind = "Err"

\* What the openings of table t were used for, in the order they are
\* pushed by the prover and in the order they are taken by the verifier.
Produced(t) ==
    [k \in 1..Len(ctl_data_per_table[t + 1]) |-> ctl_data_per_table[t + 1][k].origin]

Consumed(t) ==
    LET used == SelectSeq(verify_result.log, LAMBDA u : u.table = t)
    IN  [k \in 1..Len(used) |-> used[k].origin]

IsPrefix(a, b) == Len(a) <= Len(b) /\ \A k \in 1..Len(a) : a[k] = b[k]

\* C8: for every table t the k-th opening the verifier takes from t's list
\* is used for the same lookup, challenge, role and position as the k-th
\* CtlZData the prover pushed for t; a verification that returns Ok takes
\* all of them.
C8_ConsumedInProducedOrder ==
    pc = "verified" =>
        \A t \in 0..(Len(trace_poly_values) - 1) :
            /\ IsPrefix(Consumed(t), Produced(t))
            /\ verify_result.kind = "Ok" => Consumed(t) = Produced(t)

\* A verification that returned Ok, for two challenges, of lookups in which
\* one table occurs twice in one lookup and in two lookups.
C8_Witness ==
    /\ pc = "verified"
    /\ verify_result.kind = "Ok"
    /\ Len(ctl_challenges) >= 2
    /\ Len(cross_table_lookups) >= 2
    /\ \E t \in 0..(Len(trace_poly_values) - 1) :
          /\ \E l \in 1..Len(cross_table_lookups) :
                Cardinality({k \in 1..Len(cross_table_lookups[l].looking_tables) :
                    cross_table_lookups[l].looking_tables[k].table = t})
                + (IF cross_table_lookups[l].looked_table.table = t THEN 1 ELSE 0) >= 2
          /\ \A l \in 1..Len(cross_table_lookups) :
                \/ cross_table_lookups[l].looked_table.table = t
                \/ \E k \in 1..Len(cross_table_lookups[l].looking_tables) :
                      cross_table_lookups[l].looking_tables[k].table = t
          /\ Len(Consumed(t)) >= 6

(***************************************************************************)
(* Properties of the verification of a received proof (SpecVerify).        *)
(***************************************************************************)
\* Some table's opening list was not taken to its end.
Undrained ==
    \E t \in 1..Len(ctl_zs_first) : verify_result.iters[t] < Len(ctl_zs_first[t])

\* C9: verify_cross_table_lookups rejects the proof whenever some table's
\* opening list still has unconsumed elements after the lookups were
\* processed.
C9_RejectsUndrained ==
    (pc = "verified" /\ Undrained) => verify_result.kind # "Ok"

\* How many times table t occurs among the first n looking tables of a lookup.
LookingOccurrences(ctl, t, n) ==
    Cardinality({k \in 1..n : ctl.looking_tables[k].table = t})

\* How many times table t occurs in a lookup, as looking or looked table.
Occurrences(ctl, t) ==
    LookingOccurrences(ctl, t, Len(ctl.looking_tables))
        + (IF ctl.looked_table.table = t THEN 1 ELSE 0)

\* How many openings of table t the first n lookups need.
RECURSIVE Required(_, _)
Required(t, n) ==
    IF n = 0 THEN 0
    ELSE Required(t, n - 1) + num_challenges * Occurrences(cross_table_lookups[n], t)

\* The opening of table t that follows those of the lookups before l and
\* of the challenges before c of lookup l, and more others of lookup l.
OpeningAt(t, l, c, more) ==
    ctl_zs_first[t + 1][Required(t, l - 1)
                        + c * Occurrences(cross_table_lookups[l], t) + more + 1]

RECURSIVE LookingOpeningsProduct(_, _, _)
LookingOpeningsProduct(l, c, n) ==
    IF n = 0 THEN 1
    ELSE LET ctl == cross_table_lookups[l]
             t   == ctl.looking_tables[n].table
         IN  Mul(LookingOpeningsProduct(l, c, n - 1),
                 OpeningAt(t, l, c, LookingOccurrences(ctl, t, n - 1)))

\* Lookup l (from 1) and challenge c (from 0): the looking openings times
\* the extra product differ from the looked opening.
Mismatch(l, c) ==
    LET ctl == cross_table_lookups[l]
        t   == ctl.looked_table.table
    IN  Mul(LookingOpeningsProduct(l, c, Len(ctl.looking_tables)),
            ctl_extra_looking_products[t + 1][c + 1])
        # OpeningAt(t, l, c, LookingOccurrences(ctl, t, Len(ctl.looking_tables)))

ExactLengths ==
    \A t \in 0..(Len(ctl_zs_first) - 1) :
        Len(ctl_zs_first[t + 1]) = Required(t, Len(cross_table_lookups))

MismatchedLookups ==
    {l \in 1..Len(cross_table_lookups) :
        \E c \in 0..(num_challenges - 1) : Mismatch(l, c)}

\* C10: with opening lists of exactly the required lengths the verifier
\* returns an error naming the first lookup that has a mismatching
\* challenge, without aborting, and returns Ok exactly when no lookup and
\* challenge mismatch.
C10_ErrorNamesFirstMismatch ==
    (pc = "verified" /\ ExactLengths) =>
        IF MismatchedLookups = {}
        THEN verify_result.kind = "Ok"
        ELSE /\ verify_result.kind = "Err"
             /\ verify_result.index + 1 \in MismatchedLookups
             /\ \A l \in MismatchedLookups : verify_result.index + 1 <= l

\* A proof with lists of the required lengths was rejected at its second
\* lookup, the first lookup matching thanks to an extra product other than 1.
C10_Witness ==
    /\ pc = "verified"
    /\ ExactLengths
    /\ verify_result.kind = "Err"
    /\ verify_result.index = 1
    /\ \E c \in 0..(num_challenges - 1) :
          ctl_extra_looking_products[cross_table_lookups[1].looked_table.table + 1][c + 1] # 1

\* Some table's opening list is shorter than the lookups need.
Short ==
    \E t \in 0..(Len(ctl_zs_first) - 1) :
        Len(ctl_zs_first[t + 1]) < Required(t, Len(cross_table_lookups))

\* Every opening read for lookup l (from 1) and challenge c (from 0), and
\* before, is in its list.
Supplied(l, c) ==
    \A t \in 0..(Len(ctl_zs_first) - 1) :
        Required(t, l - 1) + (c + 1) * Occurrences(cross_table_lookups[l], t)
            <= Len(ctl_zs_first[t + 1])

\* The verifier cannot go past lookup l and challenge c.
Stops(l, c) == ~Supplied(l, c) \/ Mismatch(l, c)

Iterations == (1..Len(cross_table_lookups)) \X (0..(num_challenges - 1))

Earlier(i, j) == i[1] < j[1] \/ (i[1] = j[1] /\ i[2] < j[2])

\* C23: when some table's opening list holds fewer openings than the
\* lookups and challenges need, verify_cross_table_lookups does not return
\* Ok: it aborts at the first lookup and challenge that lack an opening,
\* with the list of some table at its end, unless a lookup and challenge
\* before it mismatch, in which case it returns the error of that lookup;
\* the shortage itself never becomes an error value.
C23_ShortageAborts ==
    (pc = "verified" /\ Short) =>
        /\ verify_result.kind # "Ok"
        /\ \E i \in Iterations :
              /\ Stops(i[1], i[2])
              /\ \A j \in Iterations : Earlier(j, i) => ~Stops(j[1], j[2])
              /\ IF Supplied(i[1], i[2])
                 THEN /\ verify_result.kind = "Err"
                      /\ verify_result.index = i[1] - 1
                 ELSE /\ verify_result.kind = "Panic"
                      /\ \E t \in 0..(Len(ctl_zs_first) - 1) :
                            verify_result.iters[t + 1] = Len(ctl_zs_first[t + 1])

\* The verifier aborted at the second lookup on a missing opening of the
\* looked table, after the first lookup matched and all openings of the
\* looking tables of the second were read.
C23_Witness ==
    /\ pc = "verified"
    /\ Short
    /\ verify_result.kind = "Panic"
    /\ Len(verify_result.log) >= 3
    /\ verify_result.log[Len(verify_result.log)].origin.lookup = 1
    /\ verify_result.log[Len(verify_result.log)].origin.role = "looking"
    /\ \E k \in 1..Len(verify_result.log) :
          /\ verify_result.log[k].origin.lookup = 0
          /\ verify_result.log[k].origin.role = "looked"

(***************************************************************************)
(* Properties of the consistency oracle and of the Z count (SpecOracle).   *)
(***************************************************************************)
\* The filter column of a TableWithColumns is neither 0 nor 1 at some row.
NonBinaryAt(twc) ==
    /\ twc.filter_column # << >>
    /\ \E i \in 0..LastRow(trace_poly_values[twc.table + 1]) :
          FilterAt(twc, trace_poly_values[twc.table + 1], i) \notin {0, 1}

NonBinaryFilter ==
    \E l \in 1..Len(cross_table_lookups) :
        \/ NonBinaryAt(cross_table_lookups[l].looked_table)
        \/ \E k \in 1..Len(cross_table_lookups[l].looking_tables) :
              NonBinaryAt(cross_table_lookups[l].looking_tables[k])

\* C11: when the filter column of a lookup evaluates at some row to a value
\* other than 0 or 1, the Z-builder aborts and the oracle aborts, wherever
\* that row is and whatever the other rows hold.
C11_NonBinaryFilterRejected ==
    NonBinaryFilter =>
        /\ pc # "start" => pc = "aborted"
        /\ check_result # NoCheck => check_result.kind = "NonBinary"

\* Both have aborted on a trace of several rows whose looked table has the
\* value 2 in its filter at row 0 only, every other filter value being binary.
C11_Witness ==
    /\ pc = "aborted"
    /\ check_result.kind = "NonBinary"
    /\ LET looked == cross_table_lookups[1].looked_table
           trace  == trace_poly_values[looked.table + 1]
       IN  /\ looked.filter_column # << >>
           /\ Degree(trace) >= 2
           /\ FilterAt(looked, trace, 0) = 2
           /\ \A i \in 1..LastRow(trace) : FilterAt(looked, trace, i) \in {0, 1}
           /\ \A k \in 1..Len(cross_table_lookups[1].looking_tables) :
                 ~NonBinaryAt(cross_table_lookups[1].looking_tables[k])

\* The lookups (from 1) whose looking and looked multisets differ.
UnequalLookups ==
    {l \in 1..Len(cross_table_lookups) : ~MultisetsEqual(cross_table_lookups[l])}

\* C12: without extra rows and with binary filters the oracle passes if and
\* only if in every lookup each payload row occurs as often among the
\* filtered rows of the looking tables as among those of the looked table;
\* it fails at the first lookup where a row does not, whichever side has
\* more, and reports such a row.
C12_OraclePassesIffMultisetsEqual ==
    (check_result # NoCheck /\ ~NonBinaryFilter /\ extra_memory_looking_values = << >>) =>
        IF UnequalLookups = {}
        THEN check_result.kind = "Ok"
        ELSE /\ check_result.kind = "Mismatch"
             /\ check_result.ctl_index + 1 \in UnequalLookups
             /\ \A l \in UnequalLookups : check_result.ctl_index + 1 <= l
             /\ LET ctl == cross_table_lookups[check_result.ctl_index + 1]
                IN  LookingCountOf(ctl.looking_tables, check_result.row)
                        # CountOf(ctl.looked_table, check_result.row)

\* The oracle failed on a row that the looked table selects and no looking
\* table does, the looking tables selecting some row.
C12_Witness ==
    /\ check_result.kind = "Mismatch"
    /\ extra_memory_looking_values = << >>
    /\ LET ctl == cross_table_lookups[check_result.ctl_index + 1]
       IN  /\ LookingCountOf(ctl.looking_tables, check_result.row) = 0
           /\ CountOf(ctl.looked_table, check_result.row) >= 1
           /\ \E k \in 1..Len(ctl.looking_tables) :
                 SelectedRows(ctl.looking_tables[k]) # {}

\* C13: for every table t, num_ctl_zs is num_challenges times the number of
\* occurrences of t as a looking or looked table over all lookups, and is
\* the number of Z sequences cross_table_lookup_data stores for t.
C13_NumCtlZsCountsStoredZs ==
    pc = "counted" =>
        \A t \in 0..(Len(trace_poly_values) - 1) :
            /\ num_zs[t + 1] = Required(t, Len(cross_table_lookups))
            /\ num_zs[t + 1] = Len(ctl_data_per_table[t + 1])

\* The Z sequences were counted for two lookups and two challenges, a table
\* being the looked table of one lookup and twice a looking table of another.
C13_Witness ==
    /\ pc = "counted"
    /\ num_challenges = 2
    /\ Len(cross_table_lookups) = 2
    /\ \E t \in 0..(Len(trace_poly_values) - 1) :
          /\ num_zs[t + 1] >= 6
          /\ \E l, m \in 1..Len(cross_table_lookups) :
                /\ cross_table_lookups[l].looked_table.table = t
                /\ LookingOccurrences(cross_table_lookups[m], t,
                       Len(cross_table_lookups[m].looking_tables)) = 2

\* The extra rows a lookup receives when they go to the lookups whose looked
\* table is Table::Memory.
ExtrasOfLooked(ctl) ==
    IF ctl.looked_table.table = Memory THEN extra_memory_looking_values ELSE << >>

\* What the oracle finds for the lookup at position l (from 1) when its
\* looking multiset holds the rows of its looking tables and ExtrasOfLooked.
KindByLookedTable(l) ==
    LET ctl == cross_table_lookups[l]
    IN  check_ctl(trace_poly_values, ctl, Memory, ExtrasOfLooked(ctl)).kind

FailingByLookedTable ==
    {l \in 1..Len(cross_table_lookups) : KindByLookedTable(l) # "Ok"}

\* C21: the extra looking rows given to check_ctls are added to the looking
\* multiset of exactly the lookups whose looked table is Table::Memory,
\* wherever the lookup stands in the list: the oracle passes when every
\* lookup is balanced with the extra rows so placed, and otherwise fails at
\* the first lookup that is not.
C21_ExtrasFollowLookedTable ==
    check_result # NoCheck =>
        IF FailingByLookedTable = {}
        THEN check_result.kind = "Ok"
        ELSE /\ check_result.kind # "Ok"
             /\ check_result.ctl_index + 1 \in FailingByLookedTable
             /\ \A l \in FailingByLookedTable : check_result.ctl_index + 1 <= l

(***************************************************************************)
(* Properties of the construction of lookups and Columns, and of           *)
(* eval_table (SpecBuild).                                                 *)
(***************************************************************************)
\* The payload widths of the tables given to CrossTableLookup::new.
ArgWidths ==
    {Len(lookup_args.looked_table.columns)}
    \cup {Len(lookup_args.looking_tables[k].columns) :
             k \in 1..Len(lookup_args.looking_tables)}

\* C14: CrossTableLookup::new aborts if some looking table has a number of
\* payload columns other than the looked table's; otherwise it returns the
\* lookup of the given looking tables, in the given order, and looked
\* table, so a constructed lookup has one payload width across its tables.
C14_NewEnforcesEqualWidth ==
    /\ (pc = "aborted" /\ lookup_args.ctor = "new") => Cardinality(ArgWidths) > 1
    /\ pc = "lookup" =>
          /\ Cardinality(ArgWidths) = 1
          /\ lookup_result.lookup.looking_tables = lookup_args.looking_tables
          /\ lookup_result.lookup.looked_table = lookup_args.looked_table

\* A construction aborted because of its second looking table, the first
\* one having the looked table's width.
C14_Witness ==
    /\ pc = "aborted"
    /\ lookup_args.ctor = "new"
    /\ Len(lookup_args.looking_tables) = 2
    /\ Len(lookup_args.looking_tables[1].columns) = Len(lookup_args.looked_table.columns)
    /\ Len(lookup_args.looking_tables[2].columns) # Len(lookup_args.looked_table.columns)

\* Some column index occurs twice in the list.
HasRepeat(v) == \E j, k \in 1..Len(v) : j # k /\ v[j][1] = v[k][1]

\* The current-row and next-row lists the constructor is asked to store.
ArgCurrent ==
    IF column_args.ctor \in {"le_bits", "le_bytes", "sum"}
    THEN [k \in 1..Len(column_args.cs) |-> <<column_args.cs[k], 1>>]
    ELSE column_args.v

ArgNext == column_args.next_row_v

\* C15: constructing a Column by linear_combination_with_constant,
\* linear_combination_and_next_row_with_constant or a helper built on them
\* fails whenever a column index repeats within the current-row list or
\* within the next-row list, so every Column that exists has unique column
\* indices within each list.
C15_RepeatedIndexRejected ==
    /\ (pc # "start" /\ column_args.ctor # "None"
            /\ (HasRepeat(ArgCurrent) \/ HasRepeat(ArgNext)))
          => pc = "aborted"
    /\ pc \in {"column", "evaluated_table"} =>
          /\ ~HasRepeat(column_result.column.linear_combination)
          /\ ~HasRepeat(column_result.column.next_row_linear_combination)

\* coeff * table[c][r] summed over the first k terms of a list.
RECURSIVE TermSum(_, _, _, _)
TermSum(terms, table, r, k) ==
    IF k = 0 THEN 0
    ELSE (TermSum(terms, table, r, k - 1)
            + terms[k][2] * table[terms[k][1] + 1][r + 1]) % FieldOrder

DrawnInOrder(ch, challenges) ==
    /\ ch.position = 2 * num_challenges
    /\ Len(challenges) = num_challenges
    /\ \A k \in 0..(num_challenges - 1) :
          /\ challenges[k + 1].beta = ch.transcript[2 * k + 1]
          /\ challenges[k + 1].gamma = ch.transcript[2 * k + 2]

\* C17: get_grand_product_challenge_set with num_challenges = n draws
\* exactly 2n elements, in sequence; challenge k (from 0) has beta = draw 2k
\* and gamma = draw 2k+1; get_grand_product_challenge_set_target draws in
\* the same order.
C17_BetaThenGammaPerChallenge ==
    /\ pc = "drawn" => DrawnInOrder(challenger, challenge_set)
    /\ pc \in {"drawn_target", "written", "tampered", "read", "read_tampered"} =>
          DrawnInOrder(challenger_target, challenge_set_target)

\* Two challenges were drawn from a transcript whose first four elements
\* are not all equal, beta and gamma of the first challenge differing.
C17_Witness ==
    /\ pc = "drawn"
    /\ num_challenges = 2
    /\ challenger.position = 4
    /\ challenge_set[1].beta # challenge_set[1].gamma
    /\ challenge_set[1] # challenge_set[2]

\* beta^(n-1) * v_0 + ... + beta * v_(n-2) + v_(n-1), over the first k scalars
RECURSIVE FirstCarriesHighestPower(_, _, _)
FirstCarriesHighestPower(terms, beta, k) ==
    IF k = 0 THEN 0
    ELSE (FirstCarriesHighestPower(terms, beta, k - 1)
            + powers(beta, Len(terms) - k) * terms[k]) % FieldOrder

\* v_0 + beta * v_1 + ... + beta^(n-1) * v_(n-1), over the first k scalars
RECURSIVE FirstCarriesPowerZero(_, _, _)
FirstCarriesPowerZero(terms, beta, k) ==
    IF k = 0 THEN 0
    ELSE (FirstCarriesPowerZero(terms, beta, k - 1)
            + powers(beta, k - 1) * terms[k]) % FieldOrder

C19_BufferRoundTrip ==
    pc = "read" =>
        /\ from_buffer_result.kind = "Ok"
        /\ from_buffer_result.challenges = challenge_set_target
        /\ from_buffer_result.position = Len(buffer)

\* A set of two different challenges, holding a wire and a virtual target,
\* beta and gamma of the first challenge differing, was written and read back.
C19_Witness ==
    /\ pc = "read"
    /\ Len(challenge_set_target) = 2
    /\ challenge_set_target[1] # challenge_set_target[2]
    /\ challenge_set_target[1].beta # challenge_set_target[1].gamma
    /\ \E k \in 1..2 : challenge_set_target[k].beta.is_wire
    /\ \E k \in 1..2 : ~challenge_set_target[k].gamma.is_wire
    /\ from_buffer_result.kind = "Ok"

\* How many targets can be read one after the other from a position, and
\* where that reading stops.
RECURSIVE TargetsFrom(_, _, _)
TargetsFrom(bytes, position, n) ==
    LET t == read_target(bytes, position)
    IN  IF position >= Len(bytes) \/ t.err THEN [n |-> n, position |-> position]
        ELSE TargetsFrom(bytes, t.position, n + 1)

\* The data after the declared count is exactly 2 * count values.
CountMatchesData(bytes) ==
    /\ Len(bytes) >= 8
    /\ LET count == from_le_bytes(SubSeq(bytes, 1, 8))
           data  == TargetsFrom(bytes, 8, 0)
       IN  /\ count # Huge
           /\ count <= Len(bytes)
           /\ data.n = 2 * count
           /\ data.position = Len(bytes)

\* C20: from_buffer returns an error for every payload whose declared count
\* does not match the data that follows it: when fewer than 2 * count
\* values follow and when more values follow than the count declares.
C20_RejectsCountMismatch ==
    (pc = "read_tampered" /\ ~CountMatchesData(buffer)) =>
        from_buffer_result.kind = "Err"

(***************************************************************************)
(* Properties of the extraction of the CTL openings (SpecExtract).         *)
(***************************************************************************)
RECURSIVE Cat(_, _)
\* The concatenation of the first n sequences of a sequence of sequences.
Cat(seqs, n) == IF n = 0 THEN << >> ELSE Cat(seqs, n - 1) \o seqs[n]

\* The occurrences of table t in a lookup: the looking tables in order, then
\* the looked table.
TablesOf(ctl, t) ==
    SelectSeq(ctl.looking_tables \o <<ctl.looked_table>>, LAMBDA twc : twc.table = t)

\* The (challenge, table) pairs of table t in lookup order, then challenge
\* order, then the order of TablesOf.
EntriesOf(t) ==
    Cat([l \in 1..Len(cross_table_lookups) |->
            Cat([c \in 1..Len(ctl_challenges) |->
                    [k \in 1..Len(TablesOf(cross_table_lookups[l], t)) |->
                        [challenges |-> ctl_challenges[c],
                         table |-> TablesOf(cross_table_lookups[l], t)[k]]]],
                Len(ctl_challenges))],
        Len(cross_table_lookups))

\* The pairs (opening, next opening) table t has after the skipped ones.
Available(t) ==
    LET a == Len(proofs[t + 1].auxiliary_polys)
        b == Len(proofs[t + 1].auxiliary_polys_next)
        m == IF a <= b THEN a ELSE b
    IN  IF m <= num_lookup_columns[t + 1] THEN 0 ELSE m - num_lookup_columns[t + 1]

\* Entry j of table t reads the openings at position num_lookup_columns + j.
ExpectedVars(t) ==
    [j \in 1..Len(EntriesOf(t)) |->
        CtlCheckVars(proofs[t + 1].auxiliary_polys[num_lookup_columns[t + 1] + j],
                     proofs[t + 1].auxiliary_polys_next[num_lookup_columns[t + 1] + j],
                     EntriesOf(t)[j].challenges,
                     EntriesOf(t)[j].table.columns,
                     EntriesOf(t)[j].table.filter_column)]

\* C22: for every table t, from_proof(t) and the component t of from_proofs
\* hold the same entries: both skip the first num_lookup_columns openings of
\* t and give the following ones to the occurrences of t in lookup order,
\* challenge order, looking tables in order, then the looked table.
\* from_proofs returns when no table lacks an opening; from_proof(t) returns
\* when t lacks none and, in addition, has none left over.
C22_FromProofMatchesFromProofs ==
    /\ ctl_vars_per_table # NoVars =>
          /\ ctl_vars_per_table.kind = "Ok" <=>
                \A t \in 0..(Len(proofs) - 1) : Available(t) >= Len(EntriesOf(t))
          /\ ctl_vars_per_table.kind = "Ok" =>
                \A t \in 0..(Len(proofs) - 1) :
                    ctl_vars_per_table.vars[t + 1] = ExpectedVars(t)
    /\ \A t \in 0..(Len(proofs) - 1) :
          ctl_vars_target[t + 1] # NoVars =>
              /\ ctl_vars_target[t + 1].kind = "Ok" <=> Available(t) = Len(EntriesOf(t))
              /\ ctl_vars_target[t + 1].kind = "Ok" =>
                    ctl_vars_target[t + 1].vars = ExpectedVars(t)
              /\ (ctl_vars_target[t + 1].kind = "Ok" /\ ctl_vars_per_table.kind = "Ok") =>
                    ctl_vars_target[t + 1].vars = ctl_vars_per_table.vars[t + 1]

\* from_proofs and from_proof(0) returned the same six or more entries after
\* one skipped opening, table 0 being in some lookup a looking table and the
\* looked table under different filters; from_proof(1) aborted on an opening
\* left over.
C22_Witness ==
    /\ ctl_vars_per_table.kind = "Ok"
    /\ ctl_vars_target[1].kind = "Ok"
    /\ ctl_vars_target[1].vars = ctl_vars_per_table.vars[1]
    /\ Len(ctl_vars_target[1].vars) >= 6
    /\ num_lookup_columns[1] = 1
    /\ \E l \in 1..Len(cross_table_lookups) :
          LET occ == TablesOf(cross_table_lookups[l], 0)
          IN  Len(occ) = 2 /\ occ[1].filter_column # occ[2].filter_column
    /\ ctl_vars_target[2].kind = "Panic"
    /\ Available(1) > Len(EntriesOf(1))

(***************************************************************************)
(* Properties of the membus constraints (SpecMembus).                      *)
(***************************************************************************)
\* The constraints of the row, as polynomials over the integers reduced
\* into the field.
ContextConstraint == (lv.code_context - (1 - lv.is_kernel_mode) * lv.context) % FieldOrder

UsedConstraint(c) ==
    (lv.mem_channels[c].used * (lv.mem_channels[c].used - 1)) % FieldOrder

\* A consumer holds the context constraint, then one constraint per channel.
HoldsMembusConstraints(constraints) ==
    /\ Len(constraints) = 1 + Len(lv.mem_channels)
    /\ constraints[1] = constraint(ContextConstraint)
    /\ \A c \in 1..Len(lv.mem_channels) :
          /\ constraints[1 + c] = constraint(UsedConstraint(c))
          /\ constraints[1 + c].value = 0 <=> lv.mem_channels[c].used \in {0, 1}
    /\ lv.is_kernel_mode = 1 =>
          (constraints[1].value = 0 <=> lv.code_context = 0)
    /\ lv.is_kernel_mode = 0 =>
          (constraints[1].value = 0 <=> lv.code_context = lv.context)

\* C24: eval_ext_circuit gives its consumer the same constraints in the same
\* order as eval_packed: code_context - (1 - is_kernel_mode) * context, then
\* used * (used - 1) for every memory channel.  A channel constraint is zero
\* exactly when used is 0 or 1; with a binary is_kernel_mode the first is
\* zero exactly when code_context is 0 in kernel mode and context in user
\* mode.
C24_MembusCircuitSameAsPacked ==
    lv # NoRow =>
        /\ consumer # << >> => HoldsMembusConstraints(consumer)
        /\ consumer_circuit # << >> => HoldsMembusConstraints(consumer_circuit)
        /\ (consumer # << >> /\ consumer_circuit # << >>) => consumer_circuit = consumer

\* Both evaluators ran on a kernel-mode row with a nonzero context and
\* code_context 0, one channel having used = 2 and another used = 1: the
\* first constraint is zero and the constraint of the former channel is not.
C24_Witness ==
    /\ lv # NoRow
    /\ consumer # << >>
    /\ consumer_circuit = consumer
    /\ lv.is_kernel_mode = 1
    /\ lv.context = 5
    /\ lv.code_context = 0
    /\ consumer_circuit[1].value = 0
    /\ \E c, d \in 1..Len(lv.mem_channels) :
          /\ lv.mem_channels[c].used = 2
          /\ consumer_circuit[1 + c].value = 2
          /\ lv.mem_channels[d].used = 1
          /\ consumer_circuit[1 + d].value = 0

====
